---------------------------- MODULE Spec2Model ----------------------------
(***************************************************************************)
(* A model of the DMG (UDIF) handler of go-app-index:                      *)
(*   internal/handlers/dmg  -  File.Parse, Handler.Open, Handler.GetStream,*)
(*   InStream.Read / Seek / findBlock / loadBlock and AdcDecoder.Decode.   *)
(*                                                                         *)
(* Scale.  The code works on uint64 byte positions, 512-byte sectors, a    *)
(* 2^18-byte ADC window and a 128-slot cache.  The model keeps every       *)
(* comparison and every wrap-around of the code but at a reduced scale:    *)
(* a machine word has WordBits bits, a sector has 2^SectorShift bytes, the *)
(* ADC window has AdcWindowSize bytes and the cache NumChunksMax slots.    *)
(* The limits of the code are derived from the word width exactly as in    *)
(* the source (SectorNumberLimit = 2^(bits-1-shift), maxPos = 2^(bits-1)). *)
(***************************************************************************)
EXTENDS Integers, Sequences, FiniteSets, TLC

-----------------------------------------------------------------------------
(* Scale of the model *)

\* width of an unsigned machine word (uint64 in the code)
WordBits == 6
\* sector shift (<< 9 in the code)
SectorShift == 1
\* the most records a mish table of the model declares
MaxRecords == 3

Word == 2 ^ WordBits
SectorSize == 2 ^ SectorShift
\* uint64 arithmetic wraps
U(x) == x % Word

-----------------------------------------------------------------------------
(* constants.go *)

MethodZero0 == "Zero0"
MethodCopy == "Copy"
MethodZero2 == "Zero2"
MethodADC == "ADC"
MethodZLIB == "ZLIB"
MethodBZIP2 == "BZIP2"
MethodLZFSE == "LZFSE"
MethodXZ == "XZ"
MethodComment == "Comment"
MethodEnd == "End"
\* a method code outside the table (for instance 0x00000003)
MethodUnknown == "Unknown"

SectorNumberLimit == 2 ^ (WordBits - 1 - SectorShift)
\* const maxPos = uint64(1) << 63
MaxPos == 2 ^ (WordBits - 1)

-----------------------------------------------------------------------------
(* block.go *)

IsZeroMethod(b) == b.Type \in {MethodZero0, MethodZero2}

NeedCrc(b) == b.Type # MethodZero2

IsClusteredMethod(b) == ~IsZeroMethod(b)

\* a classification that buffers Copy blocks as well
NeedAllocateBufferCopy(b) == ~IsZeroMethod(b)

NeedAllocateBuffer(b) == ~IsZeroMethod(b) /\ b.Type # MethodCopy

-----------------------------------------------------------------------------
(* file.go *)

NoChecksum == [Type |-> 0, NumBits |-> 0, Data |-> <<>>]

NewFile ==
  [Size |-> 0, Blocks |-> <<>>, PackSize |-> 0, StartPackPos |-> 0,
   BlockSizeMAX |-> 0, StartUnpackSector |-> 0, NumUnpackSectors |-> 0,
   IsCorrect |-> FALSE, FullFileChecksum |-> FALSE, Checksum |-> NoChecksum]

\* blockIndex is 0-based as in the code; Blocks is a 1-based sequence
GetUnpackSizeOfBlock(f, blockIndex) ==
  IF blockIndex = Len(f.Blocks) - 1
    THEN U(f.Size - f.Blocks[blockIndex + 1].UnpPos)
    ELSE U(f.Blocks[blockIndex + 2].UnpPos - f.Blocks[blockIndex + 1].UnpPos)

\* the checks of Parse before its loop; "nil" when the loop is entered
ParseHeaderError(data) ==
  IF data.hdr = "short" THEN "data too small"
  ELSE IF data.hdr = "badsig" THEN "invalid signature"
  ELSE IF data.hdr = "badver" THEN "invalid version"
  ELSE IF data.numBlocks # Len(data.recs) THEN "invalid size"
  ELSE "nil"

\* the assignments of Parse before its loop
ParseHeader(f, data) ==
  [f EXCEPT !.StartUnpackSector = data.StartUnpackSector,
            !.NumUnpackSectors = data.NumUnpackSectors,
            !.StartPackPos = data.StartPackPos,
            !.Checksum = data.Checksum,
            !.Blocks = <<>>,
            !.FullFileChecksum = TRUE]

\* a Parse that lets a record start anywhere
IsContiguousAny(f, UnpPos) == TRUE

\* the block-continuity check of the loop: a record must start where the
\* blocks so far end
IsContiguous(f, UnpPos) == UnpPos = f.Size

\* one iteration of the loop of Parse over record r: the file afterwards and
\* how the loop goes on: "next" (p += recordSize), "break" (End) or "return"
\* (return nil from inside the loop)
ParseRecord(f, r) ==
  LET UnpPos == U(r.sectorNum * SectorSize)
      unpSize == U(r.unpSectors * SectorSize)
      newSize == U(UnpPos + unpSize)
      b == [Type |-> r.Type, UnpPos |-> UnpPos,
            PackPos |-> r.PackPos, PackSize |-> r.PackSize]
  IN  IF r.sectorNum >= SectorNumberLimit THEN [f |-> f, ctl |-> "return"]
      ELSE IF r.unpSectors >= SectorNumberLimit THEN [f |-> f, ctl |-> "return"]
      ELSE IF newSize >= MaxPos THEN [f |-> f, ctl |-> "return"]
      ELSE IF ~IsContiguous(f, UnpPos) THEN [f |-> f, ctl |-> "return"]
      ELSE IF r.Type = MethodComment THEN [f |-> f, ctl |-> "next"]
      ELSE IF r.Type = MethodEnd THEN [f |-> f, ctl |-> "break"]
      ELSE IF unpSize # 0
        THEN IF r.PackPos >= MaxPos \/ r.PackSize >= MaxPos - r.PackPos
               THEN [f |-> f, ctl |-> "return"]
               ELSE [f |-> [f EXCEPT
                              !.BlockSizeMAX =
                                 IF IsClusteredMethod(b) /\ f.BlockSizeMAX < unpSize
                                   THEN unpSize ELSE f.BlockSizeMAX,
                              !.PackSize = U(f.PackSize + r.PackSize),
                              !.FullFileChecksum =
                                 IF ~NeedCrc(b) THEN FALSE ELSE f.FullFileChecksum,
                              !.Blocks = Append(f.Blocks, b),
                              !.Size = newSize],
                     ctl |-> "next"]
        ELSE [f |-> f, ctl |-> "next"]

\* a Parse that takes a file whose blocks cover at least the sectors declared
ParseFinishAtLeast(f) ==
  IF f.Size \div SectorSize >= f.NumUnpackSectors
    THEN [f EXCEPT !.IsCorrect = TRUE] ELSE f

\* the statement after the loop of Parse
ParseFinish(f) ==
  IF f.Size \div SectorSize = f.NumUnpackSectors
    THEN [f EXCEPT !.IsCorrect = TRUE] ELSE f

RECURSIVE ParseLoop(_, _, _)
ParseLoop(f, recs, i) ==
  IF i > Len(recs) THEN ParseFinish(f)
  ELSE LET s == ParseRecord(f, recs[i])
       IN  IF s.ctl = "return" THEN s.f
           ELSE IF s.ctl = "break" THEN ParseFinish(s.f)
           ELSE ParseLoop(s.f, recs, i + 1)

\* File.Parse on a fresh file: the error and the file it leaves
Parse(data) ==
  LET e == ParseHeaderError(data)
  IN  IF e # "nil"
        THEN [err |-> e,
              f |-> IF e = "invalid size" THEN
                      [NewFile EXCEPT !.StartUnpackSector = data.StartUnpackSector,
                                      !.NumUnpackSectors = data.NumUnpackSectors,
                                      !.StartPackPos = data.StartPackPos,
                                      !.Checksum = data.Checksum]
                    ELSE NewFile]
        ELSE [err |-> "nil", f |-> ParseLoop(ParseHeader(NewFile, data), data.recs, 1)]

-----------------------------------------------------------------------------
(* The byte source (io.ReadSeeker) the caller supplies.                    *)
(* An image holds its data fork in img.data at absolute offset img.dataAt; *)
(* every other byte of the container reads as 60 ('<').  img.at is the     *)
(* offset the source stands at.                                            *)

SrcByte(im, pos) ==
  IF pos >= im.dataAt /\ pos < im.dataAt + Len(im.data)
    THEN im.data[pos - im.dataAt + 1] ELSE 60

\* a Seek that leaves the source where it stands
SrcSeekNot(im, pos) == im

\* stream.Seek(pos, io.SeekStart)
SrcSeek(im, pos) == [im EXCEPT !.at = pos]

\* reads of up to n bytes in all from where the source stands: the bytes
\* the source has there (fewer than n at the end of the source)
SrcReadAt(im, n) ==
  LET avail == IF im.at >= im.size THEN 0
               ELSE IF n > im.size - im.at THEN im.size - im.at ELSE n
  IN  [i \in 1..avail |-> SrcByte(im, im.at + i - 1)]

\* Seek(pos, io.SeekStart) followed by reads of up to n bytes in all
SrcRead(im, pos, n) == SrcReadAt(SrcSeek(im, pos), n)

Zeros(n) == [i \in 1..n |-> 0]

-----------------------------------------------------------------------------
(* decoder.go: lzOutWindow *)

\* the ADC window (1 << 18 bytes in the code)
AdcWindowSize == 4

\* newLzOutWindow: buf is make([]byte, size); buf is indexed from 0 in the
\* code and from 1 here
NewLzOutWindow == [buf |-> Zeros(AdcWindowSize), pos |-> 0, isFull |-> FALSE]

\* lzOutWindow.init(false): the buffer keeps its bytes
WindowInit(w) == [w EXCEPT !.pos = 0, !.isFull = FALSE]

\* lzOutWindow.putByte
PutByte(w, b) ==
  LET np == (w.pos + 1) % AdcWindowSize
  IN  [buf |-> [w.buf EXCEPT ![w.pos + 1] = b], pos |-> np,
       isFull |-> IF np = 0 THEN TRUE ELSE w.isFull]

\* the copy loop of copyBlock: rd lists the window indexes it has read
RECURSIVE CopyLoop(_, _, _, _, _)
CopyLoop(w, copyPos, length, out, rd) ==
  IF length = 0 THEN [err |-> "nil", w |-> w, out |-> out, rd |-> rd]
  ELSE IF copyPos >= AdcWindowSize
    THEN [err |-> "panic", w |-> w, out |-> out, rd |-> Append(rd, copyPos)]
  ELSE LET b == w.buf[copyPos + 1]
       IN  CopyLoop(PutByte(w, b), (copyPos + 1) % AdcWindowSize, length - 1,
                    Append(out, b), Append(rd, copyPos))

\* the start position copyBlock computes, -1 when it returns an error
CopyStart(w, distance) ==
  IF distance >= w.pos
    THEN IF ~w.isFull THEN -1 ELSE AdcWindowSize - (distance - w.pos)
    ELSE w.pos - distance

\* lzOutWindow.copyBlock
CopyBlock(w, distance, length) ==
  IF distance >= AdcWindowSize
    THEN [err |-> "lz: invalid distance", w |-> w, out |-> <<>>, rd |-> <<>>]
  ELSE IF CopyStart(w, distance) < 0
    THEN [err |-> "lz: invalid position", w |-> w, out |-> <<>>, rd |-> <<>>]
  ELSE CopyLoop(w, CopyStart(w, distance), length, <<>>, <<>>)

RECURSIVE PutBytes(_, _, _)
PutBytes(w, bs, i) ==
  IF i > Len(bs) THEN w ELSE PutBytes(PutByte(w, bs[i]), bs, i + 1)

(* decoder.go: AdcDecoder.Decode.  inp is what the LimitedReader yields    *)
(* (at most PackSize bytes), i the next input byte, out the bytes written. *)
RECURSIVE AdcLoop(_, _, _, _, _)
AdcLoop(inp, i, w, out, unpSize) ==
  LET pos == Len(out)
      rem == unpSize - pos
      eof == [err |-> "EOF", w |-> w, out |-> out]
      bad == [err |-> "adc: corrupt data", w |-> w, out |-> out]
  IN  IF pos >= unpSize THEN [err |-> "nil", w |-> w, out |-> out]
      ELSE IF i > Len(inp) THEN eof
      ELSE LET b == inp[i] IN
        IF b >= 128
          THEN LET num == b - 128 + 1
                   got == IF i + num > Len(inp) THEN Len(inp) - i ELSE num
                   lit == SubSeq(inp, i + 1, i + got)
               IN  IF num > rem THEN bad
                   ELSE IF got < num
                     THEN [err |-> "EOF", w |-> PutBytes(w, lit, 1), out |-> out \o lit]
                   ELSE AdcLoop(inp, i + 1 + num, PutBytes(w, lit, 1), out \o lit, unpSize)
        ELSE IF i + 1 > Len(inp) THEN eof
        ELSE LET b1 == inp[i + 1]
                 long == (b % 128) >= 64
             IN  IF long /\ i + 2 > Len(inp) THEN eof
                 ELSE LET length == IF long THEN b - 64 + 4 ELSE (b \div 4) + 3
                          distance == IF long THEN b1 * 256 + inp[i + 2]
                                      ELSE (b % 4) * 256 + b1
                          c == CopyBlock(w, distance, length)
                      IN  IF length > rem THEN bad
                          ELSE IF c.err # "nil"
                            THEN [err |-> c.err, w |-> c.w, out |-> out \o c.out]
                          ELSE AdcLoop(inp, i + (IF long THEN 3 ELSE 2), c.w,
                                       out \o c.out, unpSize)

AdcDecode(inp, w, unpSize) == AdcLoop(inp, 1, WindowInit(w), <<>>, unpSize)

-----------------------------------------------------------------------------
(* decoder.go: the decoders of compress/zlib, compress/bzip2 and xz.       *)
(* The library streams are modelled by a stand-in format: a magic byte of  *)
(* the method, then (count, byte) pairs, each expanding to count copies.   *)

LibMagic(type) ==
  IF type = MethodZLIB THEN 120 ELSE IF type = MethodBZIP2 THEN 66 ELSE 253

RECURSIVE LibExpand(_, _, _)
LibExpand(inp, i, out) ==
  IF i > Len(inp) THEN [err |-> "nil", out |-> out]
  ELSE IF i + 1 > Len(inp) THEN [err |-> "unexpected EOF", out |-> out]
  ELSE LibExpand(inp, i + 2, out \o [k \in 1..inp[i] |-> inp[i + 1]])

\* NewReader and io.CopyN(w, reader, unpSize), then the size check
LibDecode(type, inp, unpSize) ==
  IF Len(inp) = 0 \/ inp[1] # LibMagic(type)
    THEN [err |-> "invalid header", out |-> <<>>]
  ELSE LET x == LibExpand(inp, 2, <<>>)
       IN  IF Len(x.out) >= unpSize
             THEN [err |-> "nil", out |-> SubSeq(x.out, 1, unpSize)]
           ELSE IF x.err # "nil" THEN [err |-> x.err, out |-> x.out]
           ELSE [err |-> "unexpected size", out |-> x.out]

\* a decoder stub that reports success
LzfseDecodeStub(inp, unpSize) == [err |-> "nil", out |-> Zeros(unpSize)]

\* LzfseDecoder.Decode
LzfseDecode(inp, unpSize) ==
  [err |-> "lzfse decompression not implemented", out |-> <<>>]

\* DecoderRegistry.GetDecoder
GetDecoderError(type) ==
  IF type \in {MethodADC, MethodZLIB, MethodBZIP2, MethodLZFSE, MethodXZ, MethodCopy}
    THEN "nil" ELSE "unsupported method"

-----------------------------------------------------------------------------
(* constants.go: cache limits (128 slots, 2^28 and 2^40 bytes in the code) *)

NumChunksMax == 2
ChunkSizeMax == 8
\* 2^40 is 32 * NumChunksMax * ChunkSizeMax in the code
ChunksTotalSizeMax == 32 * NumChunksMax * ChunkSizeMax

-----------------------------------------------------------------------------
(* streams.go: InStream *)

NewInStream(file, startPos) ==
  [live |-> TRUE, mutex |-> 0, errorMode |-> FALSE, virtPos |-> 0, latestChunk |-> -1,
   latestBlock |-> -1, accessMark |-> 0, chunksTotalSize |-> 0, chunks |-> <<>>,
   file |-> file, size |-> file.Size, startPos |-> startPos,
   \* registry.adc.outWindow, made on the first Decode
   adc |-> NewLzOutWindow]

\* sync.Mutex: mutex is 0 when unlocked, else the goroutine that holds it
\* a Lock that does not wait for the holder
LockAnyway(s) == TRUE

\* s.mutex.Lock() can return
Lockable(s) == s.mutex = 0

\* no stream yet
NoStream == [NewInStream(NewFile, 0) EXCEPT !.live = FALSE]

\* int64(x) of a word x
S(x) == ((x + MaxPos) % Word) - MaxPos

\* the loop of findBlock; fuel bounds its iterations, -1 reports that the
\* loop is still running when the bound is used up
RECURSIVE findBlockLoop(_, _, _, _, _)
findBlockLoop(blocks, pos, left, right, fuel) ==
  LET mid == (left + right) \div 2
  IN  IF mid = left THEN left
      ELSE IF fuel = 0 THEN -1
      ELSE IF pos < blocks[mid + 1].UnpPos
        THEN findBlockLoop(blocks, pos, left, mid, fuel - 1)
        ELSE findBlockLoop(blocks, pos, mid, right, fuel - 1)

\* a search that compares with <= where findBlock compares with <
findBlockLe(f, pos) == findBlockLoop(f.Blocks, pos - 1, 0, Len(f.Blocks), Len(f.Blocks))

findBlock(f, pos) == findBlockLoop(f.Blocks, pos, 0, Len(f.Blocks), Len(f.Blocks))

\* a choice of the slot with the greatest AccessMark
RECURSIVE MostMarked(_, _, _)
MostMarked(chunks, i, best) ==
  IF i > Len(chunks) THEN best - 1
  ELSE IF chunks[i].AccessMark > chunks[best].AccessMark
    THEN MostMarked(chunks, i + 1, i)
    ELSE MostMarked(chunks, i + 1, best)

\* the slot loadBlock reuses: the first one with the least AccessMark (0-based)
RECURSIVE LeastMarked(_, _, _)
LeastMarked(chunks, i, best) ==
  IF i > Len(chunks) THEN best - 1
  ELSE IF chunks[i].AccessMark < chunks[best].AccessMark
    THEN LeastMarked(chunks, i + 1, i)
    ELSE LeastMarked(chunks, i + 1, best)

\* loadBlock, "Find or create a chunk": the stream and the slot index (0-based),
\* -1 for "no chunks available"
AcquireChunk(s, unpSize) ==
  IF Len(s.chunks) < NumChunksMax /\ U(s.chunksTotalSize + unpSize) <= ChunksTotalSizeMax
    THEN [s |-> [s EXCEPT !.chunks = Append(s.chunks,
                    [BlockIndex |-> -1, AccessMark |-> 0, Buf |-> <<>>, BufSize |-> 0])],
          chunkIndex |-> Len(s.chunks)]
  ELSE IF Len(s.chunks) = 0 THEN [s |-> s, chunkIndex |-> -1]
  ELSE LET c == LeastMarked(s.chunks, 2, 1)
       IN  [s |-> [s EXCEPT !.chunks[c + 1].Buf = <<>>,
                            !.chunks[c + 1].BufSize = 0,
                            !.chunksTotalSize = U(s.chunksTotalSize - s.chunks[c + 1].BufSize)],
            chunkIndex |-> c]

\* an allocation that is not added to chunksTotalSize
AllocChunkUncounted(s, c, unpSize) ==
  [s EXCEPT !.chunks[c + 1].BlockIndex = -1,
            !.chunks[c + 1].AccessMark = s.accessMark,
            !.accessMark = U(s.accessMark + 1),
            !.chunks[c + 1].Buf = Zeros(unpSize),
            !.chunks[c + 1].BufSize = unpSize]

\* loadBlock, "Allocate and fill the chunk" up to the source seek
AllocChunk(s, c, unpSize) ==
  [s EXCEPT !.chunks[c + 1].BlockIndex = -1,
            !.chunks[c + 1].AccessMark = s.accessMark,
            !.accessMark = U(s.accessMark + 1),
            !.chunks[c + 1].Buf = Zeros(unpSize),
            !.chunks[c + 1].BufSize = unpSize,
            !.chunksTotalSize = U(s.chunksTotalSize + unpSize)]

\* what writing out into the chunk buffer through bytes.NewBuffer(Buf[:0])
\* leaves in Buf (len(out) <= unpSize)
Filled(out, unpSize) ==
  [i \in 1..unpSize |-> IF i <= Len(out) THEN out[i] ELSE 0]

\* loadBlock, "Decompress the block": error, decoded bytes and the ADC window
DecodeBlock(s, block, unpSize, inp, io) ==
  IF block.Type = MethodCopy
    THEN IF block.PackSize # unpSize
           THEN [err |-> "copy block size mismatch", out |-> <<>>, w |-> s.adc]
         ELSE IF io = "readErr" THEN [err |-> "read error", out |-> <<>>, w |-> s.adc]
         ELSE IF Len(inp) < unpSize THEN [err |-> "EOF", out |-> inp, w |-> s.adc]
         ELSE [err |-> "nil", out |-> inp, w |-> s.adc]
  ELSE IF GetDecoderError(block.Type) # "nil"
    THEN [err |-> GetDecoderError(block.Type), out |-> <<>>, w |-> s.adc]
  ELSE IF block.Type = MethodLZFSE
    THEN [err |-> LzfseDecode(inp, unpSize).err, out |-> LzfseDecode(inp, unpSize).out,
          w |-> s.adc]
  ELSE IF block.Type = MethodADC
    THEN IF io = "readErr"
           THEN [err |-> "read error", out |-> <<>>, w |-> WindowInit(s.adc)]
           ELSE AdcDecode(inp, s.adc, unpSize)
  ELSE IF io = "readErr" THEN [err |-> "read error", out |-> <<>>, w |-> s.adc]
  ELSE LET d == LibDecode(block.Type, inp, unpSize)
       IN  [err |-> d.err, out |-> d.out, w |-> s.adc]

\* loadBlock from "Decompress the block" on, d being what the decoder did
LoadDecoded(s2, c, blockIndex, unpSize, d) ==
  LET s3 == [s2 EXCEPT !.adc = d.w, !.chunks[c + 1].Buf = Filled(d.out, unpSize)]
  IN  IF d.err # "nil" THEN [s |-> s3, chunk |-> -1, err |-> d.err]
      ELSE [s |-> [s3 EXCEPT !.chunks[c + 1].BlockIndex = blockIndex],
            chunk |-> c, err |-> "nil"]

\* loadBlock from "Read and decompress the block" on, s2 being the stream
\* with slot c allocated
LoadRead(s2, c, blockIndex, im, io) ==
  LET block == s2.file.Blocks[blockIndex + 1]
      unpSize == GetUnpackSizeOfBlock(s2.file, blockIndex)
      pos == U(s2.startPos + s2.file.StartPackPos + block.PackPos)
  IN  IF io = "seekErr" \/ S(pos) < 0
        THEN [s |-> s2, chunk |-> -1, err |-> "seek error"]
      ELSE LoadDecoded(s2, c, blockIndex, unpSize,
                       DecodeBlock(s2, block, unpSize, SrcRead(im, pos, block.PackSize), io))

\* loadBlock from "Allocate and fill the chunk" on, a being the slot found
LoadChunk(blockIndex, im, io, a) ==
  IF a.chunkIndex < 0 THEN [s |-> a.s, chunk |-> -1, err |-> "no chunks available"]
  ELSE LoadRead(AllocChunk(a.s, a.chunkIndex, GetUnpackSizeOfBlock(a.s.file, blockIndex)),
                a.chunkIndex, blockIndex, im, io)

\* InStream.loadBlock: the stream afterwards, the slot index and the error
loadBlock(s, blockIndex, im, io) ==
  LoadChunk(blockIndex, im, io, AcquireChunk(s, GetUnpackSizeOfBlock(s.file, blockIndex)))

\* a search that takes the first slot, whatever block it holds
FindChunkFirst(chunks, blockIndex, i) == IF Len(chunks) > 0 THEN 0 ELSE -1

\* Read, "Try to find the block in the cache": slot index (0-based) or -1
RECURSIVE FindChunk(_, _, _)
FindChunk(chunks, blockIndex, i) ==
  IF i > Len(chunks) THEN -1
  ELSE IF chunks[i].BlockIndex = blockIndex THEN i - 1
  ELSE FindChunk(chunks, blockIndex, i + 1)

\* Read, lines 202-208: the latest block is forgotten when the cursor left it
ForgetBlock(s) ==
  IF s.latestBlock >= 0
       /\ (s.virtPos < s.file.Blocks[s.latestBlock + 1].UnpPos
           \/ U(s.virtPos - s.file.Blocks[s.latestBlock + 1].UnpPos)
                >= GetUnpackSizeOfBlock(s.file, s.latestBlock))
    THEN [s EXCEPT !.latestBlock = -1] ELSE s

\* Read, lines 230-237: l is what loadBlock returned.  A panic of the
\* decoder unwinds Read before errorMode is set.
Loaded(blockIndex, l) ==
  IF l.err = "panic" THEN [s |-> l.s, err |-> l.err]
  ELSE IF l.err # "nil" THEN [s |-> [l.s EXCEPT !.errorMode = TRUE], err |-> l.err]
  ELSE [s |-> [l.s EXCEPT !.latestChunk = l.chunk, !.latestBlock = blockIndex],
        err |-> "nil"]

\* Read, lines 213-240, for the block findBlock returned
LocateAt(s2, blockIndex, im, io) ==
  LET block == s2.file.Blocks[blockIndex + 1]
      unpSize == GetUnpackSizeOfBlock(s2.file, blockIndex)
      found == FindChunk(s2.chunks, blockIndex, 1)
  IN  IF NeedAllocateBuffer(block) /\ unpSize <= ChunkSizeMax
        THEN IF found >= 0
               THEN [s |-> [s2 EXCEPT !.latestChunk = found, !.latestBlock = blockIndex],
                     err |-> "nil"]
             ELSE Loaded(blockIndex, loadBlock(s2, blockIndex, im, io))
      ELSE [s |-> [s2 EXCEPT !.latestBlock = blockIndex], err |-> "nil"]

\* Read, lines 210-241
LocateIn(s1, im, io) ==
  IF s1.latestBlock >= 0 THEN [s |-> s1, err |-> "nil"]
  ELSE LocateAt([s1 EXCEPT !.latestChunk = -1], findBlock(s1.file, s1.virtPos), im, io)

\* Read, "Find which block contains the current position" (lines 201-241):
\* the stream afterwards and the error of loadBlock
LocateBlock(s, im, io) == LocateIn(ForgetBlock(s), im, io)

\* Read, "Read from cached chunk" (lines 263-266): chunk is a copy of the
\* slot, so the mark is set in the copy and only the counter moves
TouchChunk(s) == [s EXCEPT !.accessMark = U(s.accessMark + 1)]

\* a Read that does not adjust its size to the block
ClampNone(offset, toRead, blockSize) == toRead

\* Read, "Adjust read size to block boundaries"
ClampToBlock(offset, toRead, blockSize) ==
  IF U(offset + toRead) > blockSize THEN U(blockSize - offset) ELSE toRead

\* copy(p[:toRead], chunk.Buf[offset:offset+toRead])
CopyFrom(buf, offset, toRead) ==
  [i \in 1..toRead |-> IF offset + i <= Len(buf) THEN buf[offset + i] ELSE 0]

\* Read, "Perform the actual read" (lines 243-283)
ServeBlock(s, toRead0, im, io) ==
  LET block == s.file.Blocks[s.latestBlock + 1]
      offset == U(s.virtPos - block.UnpPos)
      blockSize == GetUnpackSizeOfBlock(s.file, s.latestBlock)
      toRead == ClampToBlock(offset, toRead0, blockSize)
      pos == U(s.startPos + s.file.StartPackPos + block.PackPos + offset)
      got == SrcRead(im, pos, toRead)
  IN  IF IsZeroMethod(block)
        THEN [s |-> [s EXCEPT !.virtPos = U(s.virtPos + toRead)],
              n |-> toRead, err |-> "nil", data |-> Zeros(toRead)]
      ELSE IF s.latestChunk >= 0
        THEN [s |-> [TouchChunk(s) EXCEPT !.virtPos = U(s.virtPos + toRead)],
              n |-> toRead, err |-> "nil",
              data |-> CopyFrom(s.chunks[s.latestChunk + 1].Buf, offset, toRead)]
      ELSE IF block.Type = MethodCopy
        THEN IF io = "seekErr" \/ S(pos) < 0
               THEN [s |-> s, n |-> 0, err |-> "seek error", data |-> <<>>]
             ELSE IF io = "readErr"
               THEN [s |-> s, n |-> 0, err |-> "read error", data |-> <<>>]
             ELSE IF Len(got) = 0
               THEN [s |-> s, n |-> 0, err |-> "EOF", data |-> <<>>]
             ELSE [s |-> [s EXCEPT !.virtPos = U(s.virtPos + Len(got))],
                   n |-> Len(got), err |-> "nil", data |-> got]
      ELSE [s |-> [s EXCEPT !.errorMode = TRUE], n |-> 0,
            err |-> "unsupported block type for direct read", data |-> <<>>]

\* Read from line 182 on, l being the block located for the cursor
ReadLocated(s, plen, im, io, l) ==
  LET remain == U(s.size - s.virtPos)
      toRead == IF plen > remain THEN remain ELSE plen
  IN  IF s.errorMode THEN [s |-> s, n |-> 0, err |-> "read in error mode", data |-> <<>>]
      ELSE IF plen = 0 THEN [s |-> s, n |-> 0, err |-> "nil", data |-> <<>>]
      ELSE IF s.virtPos >= s.size THEN [s |-> s, n |-> 0, err |-> "EOF", data |-> <<>>]
      ELSE IF l.err # "nil" THEN [s |-> l.s, n |-> 0, err |-> l.err, data |-> <<>>]
      ELSE ServeBlock(l.s, toRead, im, io)

\* InStream.Read with len(p) = plen; io is what the source does in this call
Read(s, plen, im, io) == ReadLocated(s, plen, im, io, LocateBlock(s, im, io))

SeekStart == 0
SeekCurrent == 1
SeekEnd == 2

\* a Seek that stores the position it computed without looking at its sign
SeekUnchecked(s, offset, whence) ==
  LET newPos == IF whence = SeekStart THEN offset
                ELSE IF whence = SeekCurrent THEN S(S(s.virtPos) + offset)
                ELSE S(S(s.size) + offset)
  IN  IF whence \notin {SeekStart, SeekCurrent, SeekEnd}
        THEN [s |-> s, pos |-> S(s.virtPos), err |-> "invalid whence"]
      ELSE [s |-> [s EXCEPT !.virtPos = U(newPos)], pos |-> newPos, err |-> "nil"]

\* InStream.Seek: the stream afterwards, the position returned and the error
Seek(s, offset, whence) ==
  LET newPos == IF whence = SeekStart THEN offset
                ELSE IF whence = SeekCurrent THEN S(S(s.virtPos) + offset)
                ELSE S(S(s.size) + offset)
  IN  IF whence \notin {SeekStart, SeekCurrent, SeekEnd}
        THEN [s |-> s, pos |-> S(s.virtPos), err |-> "invalid whence"]
      ELSE IF newPos < 0
        THEN [s |-> s, pos |-> S(s.virtPos), err |-> "negative position"]
      ELSE [s |-> [s EXCEPT !.virtPos = newPos], pos |-> newPos, err |-> "nil"]

-----------------------------------------------------------------------------
(* utils.go, checksum.go: CRC-32.  hash/crc32 is modelled by a stand-in    *)
(* over four-byte states: a 32-bit value is the tuple of its big-endian    *)
(* bytes.                                                                  *)

CrcInitVal == <<255, 255, 255, 255>>

RECURSIVE CrcUpdate(_, _, _)
CrcUpdate(crc, data, i) ==
  IF i > Len(data) THEN crc
  ELSE CrcUpdate(<<crc[2], crc[3], crc[4], (crc[1] * 3 + data[i] + 1) % 256>>, data, i + 1)

\* crc ^ 0xffffffff
CrcGetDigest(crc) == [i \in 1..4 |-> 255 - crc[i]]

ChecksumTypeCRC == 2
\* the bytes of the Data array of a checksum record (128 in the code)
ChecksumSizeMax == 8

IsCrc32(c) == c.Type = ChecksumTypeCRC /\ c.NumBits = 32

\* Data is a [ChecksumSizeMax]byte array: the bytes an image does not give are 0
ChecksumData(c, n) == [i \in 1..n |-> IF i <= Len(c.Data) THEN c.Data[i] ELSE 0]

GetCrc32(c) == ChecksumData(c, 4)

-----------------------------------------------------------------------------
(* fork.go *)

\* ForkPair.UpdateTop: ok and the new top
UpdateTop(f, limit, top) ==
  IF f.Offset > limit \/ f.Len > limit - f.Offset
    THEN [ok |-> FALSE, top |-> top]
    ELSE [ok |-> TRUE, top |-> IF top <= f.Offset + f.Len THEN f.Offset + f.Len ELSE top]

-----------------------------------------------------------------------------
(* handler.go *)

KolyHeaderSize == 512
\* len(signature) of the probe for "<?xml version"
XmlSignatureLen == 13
NoPair == [Offset |-> 0, Len |-> 0]

NewHandler ==
  [masterCrcError |-> FALSE, headersError |-> FALSE, dataForkError |-> FALSE,
   rsrcModeWasUsed |-> FALSE, files |-> <<>>, startPos |-> 0, phySize |-> 0,
   name |-> "", dataForkPair |-> NoPair, rsrcPair |-> NoPair, xmlPair |-> NoPair,
   blobPair |-> NoPair, numSectors |-> 0,
   dataForkChecksum |-> NoChecksum, masterChecksum |-> NoChecksum]

\* Handler.Close
Close(h) ==
  [h EXCEPT !.masterCrcError = FALSE, !.headersError = FALSE, !.dataForkError = FALSE,
            !.rsrcModeWasUsed = FALSE, !.phySize = 0, !.startPos = 0, !.name = "",
            !.files = <<>>]

\* constants.go: 'k', 'o', 'l', 'y', 0, 0, 0, 4, 0, 0, 2, 0
KolySignature == <<107, 111, 108, 121, 0, 0, 0, 4, 0, 0, 2, 0>>

\* utils.go: IsKoly, on the first bytes of a header that was read in full
IsKoly(data) == SubSeq(data, 1, Len(KolySignature)) = KolySignature

\* an Open that looks for the Koly header at the front of the source first
LocateKolyFrontFirst(im) ==
  LET headerPos == im.size - KolyHeaderSize
  IN  IF headerPos < 0 THEN [err |-> "file too small", headerPos |-> headerPos,
                             frontKolyMode |-> FALSE, t |-> im.endT]
      ELSE IF IsKoly(im.frontHead)
        THEN [err |-> "nil", headerPos |-> 0, frontKolyMode |-> TRUE, t |-> im.frontT]
      ELSE IF ~IsKoly(im.endHead)
        THEN [err |-> "invalid DMG file: no Koly header found", headerPos |-> headerPos,
              frontKolyMode |-> FALSE, t |-> im.frontT]
      ELSE [err |-> "nil", headerPos |-> headerPos, frontKolyMode |-> FALSE, t |-> im.endT]

\* Open, "Try to find the Koly header" (lines 52-95); endHead and frontHead
\* are the first bytes of the last and of the first 512 bytes of the source
LocateKoly(im) ==
  LET headerPos == im.size - KolyHeaderSize
  IN  IF headerPos < 0 THEN [err |-> "file too small", headerPos |-> headerPos,
                             frontKolyMode |-> FALSE, t |-> im.endT]
      ELSE IF IsKoly(im.endHead) THEN [err |-> "nil", headerPos |-> headerPos,
                                       frontKolyMode |-> FALSE, t |-> im.endT]
      ELSE IF ~IsKoly(im.frontHead)
        THEN [err |-> "invalid DMG file: no Koly header found", headerPos |-> headerPos,
              frontKolyMode |-> FALSE, t |-> im.frontT]
      ELSE [err |-> "nil", headerPos |-> 0, frontKolyMode |-> TRUE, t |-> im.frontT]

\* Open, "Parse Koly header" (lines 97-105)
ParseKoly(h, t) ==
  [h EXCEPT !.dataForkPair = t.dataFork, !.rsrcPair = t.rsrc, !.xmlPair = t.xml,
            !.blobPair = t.blob, !.dataForkChecksum = t.dataForkChecksum,
            !.masterChecksum = t.masterChecksum, !.numSectors = t.numSectors]

\* Open, "Check if this is a front Koly mode DMG" (lines 107-110)
FrontKolyMode(h, k, fileSize) ==
  k.frontKolyMode
    \/ (h.dataForkPair.Offset = KolyHeaderSize /\ KolyHeaderSize + k.headerPos < fileSize)

\* Open, "Determine file boundaries" (lines 112-132)
ForkBounds(h, limit) ==
  LET d == UpdateTop(h.dataForkPair, limit, 0)
      x == UpdateTop(h.xmlPair, limit, d.top)
      r == UpdateTop(h.rsrcPair, limit, x.top)
      b == UpdateTop(h.blobPair, limit, r.top)
  IN  IF ~d.ok THEN [err |-> "invalid data fork", top |-> d.top, useBlob |-> FALSE]
      ELSE IF ~x.ok THEN [err |-> "invalid XML fork", top |-> x.top, useBlob |-> FALSE]
      ELSE IF ~r.ok THEN [err |-> "invalid rsrc fork", top |-> r.top, useBlob |-> FALSE]
      ELSE [err |-> "nil", top |-> b.top, useBlob |-> b.ok]

\* the text "<?xml version" the probe looks for
XmlSignature == "<?xml version"

\* bytes.Equal(xmlBuf[:len(signature)], signature) on the 13 bytes read at
\* absolute offset off: the XML text of the image begins with im.xmlHead,
\* every other byte of the source is not part of the signature
XmlSignatureAt(im, off) ==
  im.dirKind = "xml" /\ off = im.dirAt /\ im.xmlHead = XmlSignature

\* Open, lines 134-159: phySize and startPos; "panic" when xmlBuf[:13] is
\* sliced beyond the capacity of a shorter buffer
Offsets(h, im, front, headerPos, top) ==
  LET len2 == IF h.xmlPair.Len > XmlSignatureLen THEN XmlSignatureLen ELSE h.xmlPair.Len
  IN  IF front THEN [err |-> "nil", h |-> [h EXCEPT !.phySize = top]]
      ELSE LET h1 == [h EXCEPT !.phySize = headerPos + KolyHeaderSize, !.startPos = 0]
           IN  IF top = headerPos THEN [err |-> "nil", h |-> h1]
               ELSE IF len2 < XmlSignatureLen THEN [err |-> "panic", h |-> h1]
               ELSE IF XmlSignatureAt(im, h.xmlPair.Offset) THEN [err |-> "nil", h |-> h1]
               ELSE [err |-> "nil",
                     h |-> [h1 EXCEPT !.startPos = headerPos - top,
                                      !.phySize = top + KolyHeaderSize]]

\* readData / Seek and io.ReadFull of a fork: whether the source has the range
CanReadFork(h, im, pair) == h.startPos + pair.Offset + pair.Len <= im.size

\* parseBlob on the bytes read for the blob fork
parseBlob(im, len) ==
  IF len < 12 THEN FALSE ELSE im.blob # "malformed"

\* Open, "Parse blob if available" (lines 161-171)
OpenBlob(h, im, useBlob) ==
  IF useBlob /\ h.blobPair.Len # 0 /\ h.blobPair.Len <= 2 ^ 24
    THEN IF ~CanReadFork(h, im, h.blobPair) THEN [err |-> "unexpected EOF", h |-> h]
         ELSE IF ~parseBlob(im, h.blobPair.Len)
           THEN [err |-> "nil", h |-> [h EXCEPT !.headersError = TRUE]]
         ELSE [err |-> "nil",
               h |-> [h EXCEPT !.name = IF im.blob = "signed" THEN "id" ELSE h.name]]
    ELSE [err |-> "nil", h |-> h]

\* an Open that does not look at IsCorrect
RECURSIVE AddFilesUnchecked(_, _, _)
AddFilesUnchecked(h, entries, i) ==
  IF i > Len(entries) THEN [err |-> "nil", h |-> h]
  ELSE LET r == Parse(entries[i])
       IN  IF r.err # "nil" THEN [err |-> r.err, h |-> h]
           ELSE AddFilesUnchecked([h EXCEPT !.files = Append(@, r.f)], entries, i + 1)

\* Open, "Create and parse file" for the entries of the directory from the
\* i-th on (lines 297-309 and 374-395)
RECURSIVE AddFiles(_, _, _)
AddFiles(h, entries, i) ==
  IF i > Len(entries) THEN [err |-> "nil", h |-> h]
  ELSE LET r == Parse(entries[i])
       IN  IF r.err # "nil" THEN [err |-> r.err, h |-> h]
           ELSE AddFiles([h EXCEPT !.headersError = IF ~r.f.IsCorrect THEN TRUE ELSE @,
                                   !.files = Append(@, r.f)],
                         entries, i + 1)

\* whether the bytes read at absolute offset off are the directory of the
\* image, in the encoding asked for, and walk as one
DirectoryAt(im, kind, off) == im.dirKind = kind /\ off = im.dirAt /\ im.dirOK

\* Open, "Parse XML or RSRC to get files" (lines 173-397)
OpenDirectory(h, im) ==
  IF h.xmlPair.Len = 0
    THEN IF h.rsrcPair.Len < 256 \/ h.rsrcPair.Len > 2 ^ 24
           THEN [err |-> "invalid or missing resource fork", h |-> h]
         ELSE LET h1 == [h EXCEPT !.rsrcModeWasUsed = TRUE]
              IN  IF ~CanReadFork(h, im, h.rsrcPair) THEN [err |-> "unexpected EOF", h |-> h1]
                  ELSE IF ~DirectoryAt(im, "rsrc", h.startPos + h.rsrcPair.Offset)
                    THEN [err |-> "invalid resource fork structure", h |-> h1]
                  ELSE AddFiles(h1, im.entries, 1)
    ELSE IF h.xmlPair.Len > 2 ^ 30 + (2 ^ 30 - 256) THEN [err |-> "XML data too large", h |-> h]
    ELSE IF ~CanReadFork(h, im, h.xmlPair) THEN [err |-> "unexpected EOF", h |-> h]
    ELSE IF ~DirectoryAt(im, "xml", h.startPos + h.xmlPair.Offset)
      THEN [err |-> "xml parse error", h |-> h]
    ELSE AddFiles(h, im.entries, 1)

\* Open, "Verify master checksum" (lines 399-417): the fold over the files
RECURSIVE MasterFold(_, _, _)
MasterFold(crc, files, i) ==
  IF i > Len(files) THEN crc
  ELSE LET cs == files[i].Checksum
           len == cs.NumBits \div 8
       IN  IF cs.NumBits % 8 # 0 THEN crc
           ELSE IF len > ChecksumSizeMax THEN crc
           ELSE MasterFold(CrcUpdate(crc, ChecksumData(cs, len), 1), files, i + 1)

VerifyMaster(h) ==
  IF IsCrc32(h.masterChecksum)
    THEN [h EXCEPT !.masterCrcError =
            (CrcGetDigest(MasterFold(CrcInitVal, h.files, 1)) # GetCrc32(h.masterChecksum))]
    ELSE h

\* Open, "Verify sector counts" (lines 419-437): whether a check of the loop
\* fails from file i on, and the sum of the sectors
RECURSIVE SectorErrors(_, _, _)
SectorErrors(files, i, sec) ==
  IF i > Len(files) THEN [bad |-> FALSE, sec |-> sec]
  ELSE LET f == files[i]
           sec2 == U(sec + f.NumUnpackSectors)
           rest == SectorErrors(files, i + 1, sec2)
       IN  [bad |-> f.StartUnpackSector # sec \/ f.NumUnpackSectors >= SectorNumberLimit
                      \/ sec2 >= SectorNumberLimit \/ rest.bad,
            sec |-> rest.sec]

\* a verification that holds the trailer's count against the last file alone
VerifySectorsLast(h) ==
  LET v == SectorErrors(h.files, 1, 0)
      n == IF Len(h.files) = 0 THEN 0 ELSE h.files[Len(h.files)].NumUnpackSectors
  IN  IF v.bad \/ n # h.numSectors THEN [h EXCEPT !.headersError = TRUE] ELSE h

VerifySectors(h) ==
  LET v == SectorErrors(h.files, 1, 0)
  IN  IF v.bad \/ v.sec # h.numSectors THEN [h EXCEPT !.headersError = TRUE] ELSE h

\* Open, "Verify data fork checksum" (lines 439-495); the fork pair passed
\* UpdateTop, so Offset + Len does not wrap and Offset is below 2^63
VerifyDataFork(h, im) ==
  LET seekPos == h.startPos + h.dataForkPair.Offset
      endPos == h.dataForkPair.Offset + h.dataForkPair.Len
      bytes == SrcRead(im, seekPos, h.dataForkPair.Len)
  IN  IF ~IsCrc32(h.dataForkChecksum) THEN [err |-> "nil", h |-> h]
      ELSE IF seekPos > im.size \/ endPos > im.size - h.startPos
        THEN [err |-> "nil", h |-> [h EXCEPT !.headersError = TRUE]]
      ELSE IF GetCrc32(h.dataForkChecksum) # CrcGetDigest(CrcUpdate(CrcInitVal, bytes, 1))
        THEN [err |-> "nil", h |-> [h EXCEPT !.dataForkError = TRUE]]
      ELSE [err |-> "nil", h |-> h]

\* Handler.Open: the error it returns and the handler it leaves
Open(h, im) ==
  LET h0 == Close(h)
      k == LocateKoly(im)
      h1 == ParseKoly(h0, k.t)
      front == FrontKolyMode(h1, k, im.size)
      limit == IF front THEN im.size ELSE k.headerPos
      fb == ForkBounds(h1, limit)
      o == Offsets(h1, im, front, k.headerPos, fb.top)
      b == OpenBlob(o.h, im, fb.useBlob)
      d == OpenDirectory(b.h, im)
      v == VerifyDataFork(VerifySectors(VerifyMaster(d.h)), im)
  IN  IF k.err # "nil" THEN [err |-> k.err, h |-> h0]
      ELSE IF fb.err # "nil" THEN [err |-> fb.err, h |-> h1]
      ELSE IF o.err # "nil" THEN o
      ELSE IF b.err # "nil" THEN b
      ELSE IF d.err # "nil" THEN d
      ELSE v

\* Handler.GetStream, "Check all blocks" from block i (0-based) on
RECURSIVE CheckBlocks(_, _)
CheckBlocks(file, i) ==
  IF i >= Len(file.Blocks) THEN "nil"
  ELSE LET block == file.Blocks[i + 1]
       IN  IF ~NeedAllocateBuffer(block) THEN CheckBlocks(file, i + 1)
           ELSE IF GetUnpackSizeOfBlock(file, i) > ChunkSizeMax THEN "block too large"
           ELSE IF block.Type \in {MethodCopy, MethodADC, MethodZLIB, MethodBZIP2,
                                   MethodLZFSE, MethodXZ}
             THEN CheckBlocks(file, i + 1)
           ELSE "unsupported block type"

\* Handler.GetStream: the error and the stream
GetStream(h, index) ==
  IF index < 0 \/ index >= Len(h.files)
    THEN [err |-> "index out of range", s |-> NoStream]
  ELSE IF ~h.files[index + 1].IsCorrect
    THEN [err |-> "file is not correct", s |-> NoStream]
  ELSE IF CheckBlocks(h.files[index + 1], 0) # "nil"
    THEN [err |-> CheckBlocks(h.files[index + 1], 0), s |-> NoStream]
  ELSE [err |-> "nil",
        s |-> NewInStream(h.files[index + 1], h.startPos + h.dataForkPair.Offset)]

-----------------------------------------------------------------------------
(* The state of the program *)

VARIABLES
  p,        \* a File.Parse call in progress: its position, its file, its error
  img,      \* the container the caller supplies as the byte source
  h,        \* the Handler
  openErr,  \* what the last Open returned, "none" before the first
  st,       \* the InStreams the caller holds
  last,     \* what the last call on each stream returned
  hist,     \* what the caller has seen of each stream so far
  gr        \* the call each goroutine has in progress on stream 1

vars == <<p, img, h, openErr, st, last, hist, gr>>

\* the streams a caller holds at once
Streams == {1, 2}

\* the goroutines that call into one stream
Goroutines == {1, 2}

\* a goroutine outside Read and Seek
NoCall == [pc |-> "idle", op |-> "none", res |-> [n |-> 0, err |-> "nil", data |-> <<>>,
                                                   pos |-> 0, pre |-> 0],
           plen |-> 0, offset |-> 0, whence |-> 0]

\* twelve bytes that are not the Koly signature, and twelve that differ from
\* it in the last byte only
NotKoly == [i \in 1..12 |-> 60]
NearKoly == [KolySignature EXCEPT ![12] = 1]

NoImage ==
  [size |-> 0, at |-> 0, endHead |-> NotKoly, frontHead |-> NotKoly,
   endT |-> [dataFork |-> NoPair, rsrc |-> NoPair, xml |-> NoPair, blob |-> NoPair,
             dataForkChecksum |-> NoChecksum, masterChecksum |-> NoChecksum,
             numSectors |-> 0],
   frontT |-> [dataFork |-> NoPair, rsrc |-> NoPair, xml |-> NoPair, blob |-> NoPair,
               dataForkChecksum |-> NoChecksum, masterChecksum |-> NoChecksum,
               numSectors |-> 0],
   dirKind |-> "xml", dirAt |-> 0, dirOK |-> FALSE, xmlHead |-> "",
   blob |-> "nomagic", entries |-> <<>>, dataAt |-> 0, data |-> <<>>]

\* ctl: how the loop of Parse was left ("return": from inside the loop,
\* "break": on an End record, "end": after the last record)
NoParse ==
  [pc |-> "idle", f |-> NewFile, i |-> 0, numBlocks |-> 0, err |-> "nil", ctl |-> "none"]

NoResult ==
  [op |-> "none", err |-> "nil", n |-> 0, data |-> <<>>, pre |-> 0, plen |-> 0,
   offset |-> 0, whence |-> 0, pos |-> 0, io |-> "ok", wasFailed |-> FALSE,
   wasError |-> FALSE]

\* failed: a Read returned an error other than io.EOF.  For a caller that
\* keeps what it reads (keep): seen[i] is the byte read at position i - 1
\* (-1: none yet), dup: a position was read twice, lin: every Read began
\* where the bytes read before it end
NoHist == [failed |-> FALSE, keep |-> FALSE, seen |-> <<>>, dup |-> FALSE, lin |-> TRUE]

Idle ==
  /\ p = NoParse
  /\ img = NoImage
  /\ h = NewHandler
  /\ openErr = "none"
  /\ st = [k \in Streams |-> NoStream]
  /\ last = [k \in Streams |-> NoResult]
  /\ hist = [k \in Streams |-> NoHist]
  /\ gr = [g \in Goroutines |-> NoCall]

-----------------------------------------------------------------------------
(* File.Parse, one record of the mish table at a time *)

ParseTypes == {MethodZero2, MethodCopy, MethodADC, MethodComment, MethodEnd}
ParseSectorNums == 0..(2 * (MaxRecords - 1)) \cup {SectorNumberLimit - 1, SectorNumberLimit}
ParseUnpSectors == {0, 1, 2, SectorNumberLimit - 1, SectorNumberLimit}
ParsePackPos == {0, MaxPos}
ParsePackSizes == {1, MaxPos}

\* Parse up to its loop, on a table that declares numBlocks records and holds
\* count of them
ParseBegin(hdr, numBlocks, count, start, num) ==
  LET data == [hdr |-> hdr, numBlocks |-> numBlocks, recs |-> [j \in 1..count |-> 0],
               StartUnpackSector |-> start, NumUnpackSectors |-> num,
               StartPackPos |-> 0, Checksum |-> NoChecksum]
      e == ParseHeaderError(data)
  IN  /\ p.pc = "idle"
      /\ p' = IF e # "nil"
                THEN [pc |-> "done", f |-> Parse(data).f, i |-> 0,
                      numBlocks |-> numBlocks, err |-> e, ctl |-> "none"]
                ELSE [pc |-> "loop", f |-> ParseHeader(NewFile, data), i |-> 0,
                      numBlocks |-> numBlocks, err |-> "nil", ctl |-> "none"]
      /\ UNCHANGED <<gr, img, h, openErr, st, last, hist>>

\* one iteration of the loop of Parse
ParseStep(r) ==
  LET s == ParseRecord(p.f, r)
  IN  /\ p.pc = "loop"
      /\ p.i < p.numBlocks
      /\ p' = IF s.ctl = "return" THEN [p EXCEPT !.pc = "done", !.f = s.f, !.ctl = "return"]
              ELSE IF s.ctl = "break"
                THEN [p EXCEPT !.pc = "done", !.f = ParseFinish(s.f), !.ctl = "break"]
              ELSE [p EXCEPT !.f = s.f, !.i = p.i + 1]
      /\ UNCHANGED <<gr, img, h, openErr, st, last, hist>>

\* the loop of Parse runs out of records
ParseEnd ==
  /\ p.pc = "loop"
  /\ p.i = p.numBlocks
  /\ p' = [p EXCEPT !.pc = "done", !.f = ParseFinish(p.f), !.ctl = "end"]
  /\ UNCHANGED <<gr, img, h, openErr, st, last, hist>>

\* the caller starts over with a fresh File
ParseAgain ==
  /\ p.pc = "done"
  /\ p' = NoParse
  /\ UNCHANGED <<gr, img, h, openErr, st, last, hist>>

NextParse ==
  \/ \E hdr \in {"ok", "short", "badsig", "badver"}, numBlocks \in 0..MaxRecords,
        d \in {0, 1}, start \in {0, 1}, num \in 0..(2 * MaxRecords) :
       ParseBegin(hdr, numBlocks, numBlocks + d, start, num)
  \/ \E ty \in ParseTypes, sn \in ParseSectorNums, us \in ParseUnpSectors,
        pp \in ParsePackPos, ps \in ParsePackSizes :
       ParseStep([Type |-> ty, sectorNum |-> sn, unpSectors |-> us,
                  PackPos |-> pp, PackSize |-> ps])
  \/ ParseEnd
  \/ ParseAgain

SpecParse == Idle /\ [][NextParse]_vars

\* the blocks of a file, as indexes of the code
BlockIndexes(f) == 0..(Len(f.Blocks) - 1)

RECURSIVE SumUnpackSizes(_, _)
SumUnpackSizes(f, i) ==
  IF i >= Len(f.Blocks) THEN 0
  ELSE GetUnpackSizeOfBlock(f, i) + SumUnpackSizes(f, i + 1)

\* the blocks of f tile [0, f.Size) in order, each with a positive size
BlocksTile(f) ==
  /\ SumUnpackSizes(f, 0) = f.Size
  /\ Len(f.Blocks) > 0 => f.Blocks[1].UnpPos = 0
  /\ \A i \in BlockIndexes(f) :
       /\ GetUnpackSizeOfBlock(f, i) > 0
       /\ i + 1 < Len(f.Blocks) =>
            /\ f.Blocks[i + 1].UnpPos < f.Blocks[i + 2].UnpPos
            /\ f.Blocks[i + 2].UnpPos
                 = f.Blocks[i + 1].UnpPos + GetUnpackSizeOfBlock(f, i)

\* C6: every file a Parse call that returned nil leaves (early soft
\* rejections included) has blocks that start at virtual position 0, are
\* strictly ascending and contiguous, each of a positive decompressed size,
\* and whose sizes add up to file.Size
C6_BlocksTileFile ==
  (p.pc = "done" /\ p.err = "nil") => BlocksTile(p.f)

\* a parse that stopped on a soft rejection after storing two blocks
C6_Witness ==
  /\ p.pc = "done" /\ p.err = "nil"
  /\ Len(p.f.Blocks) = 2 /\ ~p.f.IsCorrect /\ p.i = 2 /\ p.numBlocks = 3

\* the blocks of f that hold position pos
Holders(f, pos) ==
  {i \in BlockIndexes(f) :
     f.Blocks[i + 1].UnpPos <= pos
       /\ pos < f.Blocks[i + 1].UnpPos + GetUnpackSizeOfBlock(f, i)}

\* C7: in a parsed file with at least one block, every position below
\* file.Size lies in exactly one block, and findBlock ends its loop and
\* returns the index of that block
C7_FindBlockUnique ==
  (p.pc = "done" /\ p.err = "nil" /\ Len(p.f.Blocks) >= 1) =>
     \A pos \in 0..(p.f.Size - 1) :
        /\ Cardinality(Holders(p.f, pos)) = 1
        /\ findBlock(p.f, pos) \in Holders(p.f, pos)

\* a parsed file of three blocks, the middle one of two sectors
C7_Witness ==
  /\ p.pc = "done" /\ p.err = "nil" /\ Len(p.f.Blocks) = 3
  /\ GetUnpackSizeOfBlock(p.f, 1) = 2 * SectorSize
  /\ findBlock(p.f, 2 * SectorSize) = 1

\* C16 as stated: after a Parse that returned nil, IsCorrect is true exactly
\* when Size >> 9 is NumUnpackSectors, also when the loop was left early
C16_IsCorrectIff ==
  (p.pc = "done" /\ p.err = "nil") =>
     (p.f.IsCorrect <=> (p.f.Size \div SectorSize = p.f.NumUnpackSectors))

\* C16, amended: after a Parse that returned nil, IsCorrect is true exactly
\* when Size >> 9 is NumUnpackSectors if the loop ended on an End record or
\* after the last record, and IsCorrect is false if the loop was left on a
\* soft rejection
C16_IsCorrectUnlessRejected ==
  (p.pc = "done" /\ p.err = "nil") =>
     IF p.ctl = "return" THEN ~p.f.IsCorrect
     ELSE (p.f.IsCorrect <=> (p.f.Size \div SectorSize = p.f.NumUnpackSectors))

\* a parse left on a soft rejection with blocks that cover the sectors declared
C16_Witness ==
  /\ p.pc = "done" /\ p.err = "nil" /\ p.ctl = "return"
  /\ Len(p.f.Blocks) >= 1
  /\ p.f.Size \div SectorSize = p.f.NumUnpackSectors
  /\ ~p.f.IsCorrect

-----------------------------------------------------------------------------
(* The containers the caller supplies: a data fork, the XML directory     *)
(* right after it and the Koly trailer in the last 512 bytes.             *)

Rec(ty, sn, us, pp, ps) ==
  [Type |-> ty, sectorNum |-> sn, unpSectors |-> us, PackPos |-> pp, PackSize |-> ps]

\* a well-formed mish table of the records recs for a file of num sectors
Mish(recs, start, num) ==
  [hdr |-> "ok", numBlocks |-> Len(recs), recs |-> recs, StartUnpackSector |-> start,
   NumUnpackSectors |-> num, StartPackPos |-> 0, Checksum |-> NoChecksum]

Container(data, entries, numSectors) ==
  [NoImage EXCEPT
     !.size = Len(data) + 40 + KolyHeaderSize,
     !.endHead = KolySignature,
     !.endT = [@ EXCEPT !.dataFork = [Offset |-> 0, Len |-> Len(data)],
                        !.xml = [Offset |-> Len(data), Len |-> 40],
                        !.numSectors = numSectors],
     !.dirAt = Len(data), !.dirOK = TRUE, !.xmlHead = XmlSignature,
     !.entries = entries, !.data = data]

\* the bytes of a Copy block
CopyBytes(n, base) == [i \in 1..n |-> base + i]
\* an ADC stream of one literal sequence of n bytes
AdcLiteral(n) == <<128 + n - 1>> \o [i \in 1..n |-> i]
\* an ADC stream of n bytes: the literal 9, then a short match of length
\* n - 1 with the distance field 0
AdcRun(n) == <<128, 9, 4 * (n - 4), 0>>
\* a compressed stream of n bytes b
LibRun(type, n, b) == <<LibMagic(type), n, b>>

\* Zero | Copy | ADC (literals) | ADC (run)
MixedImage ==
  LET S1 == SectorSize
      x == AdcLiteral(2 * S1)
      y == AdcRun(2 * S1)
  IN  Container(CopyBytes(S1, 10) \o x \o y,
        <<Mish(<<Rec(MethodZero0, 0, 1, 0, 0),
                 Rec(MethodCopy, 1, 1, 0, S1),
                 Rec(MethodComment, 2, 0, 0, 0),
                 Rec(MethodADC, 2, 2, S1, Len(x)),
                 Rec(MethodADC, 4, 2, S1 + Len(x), Len(y)),
                 Rec(MethodEnd, 6, 0, 0, 0)>>, 0, 6)>>, 6)

\* Copy | ZLIB | LZFSE | Zero
LzfseImage ==
  LET S1 == SectorSize
      z == LibRun(MethodZLIB, 2 * S1, 7)
  IN  Container(CopyBytes(S1, 20) \o z \o <<98, 118, 120>>,
        <<Mish(<<Rec(MethodCopy, 0, 1, 0, S1),
                 Rec(MethodZLIB, 1, 2, S1, Len(z)),
                 Rec(MethodLZFSE, 3, 1, S1 + Len(z), 3),
                 Rec(MethodZero2, 4, 1, 0, 0),
                 Rec(MethodEnd, 5, 0, 0, 0)>>, 0, 5)>>, 5)

\* Zero | Copy | a block of a method outside the table
UnknownImage ==
  LET S1 == SectorSize
  IN  Container(CopyBytes(S1, 30) \o <<1, 2>>,
        <<Mish(<<Rec(MethodZero2, 0, 1, 0, 0),
                 Rec(MethodCopy, 1, 1, 0, S1),
                 Rec(MethodUnknown, 2, 1, S1, 2),
                 Rec(MethodEnd, 3, 0, 0, 0)>>, 0, 3)>>, 3)

\* Copy | ZLIB with a bad header | ADC cut short | BZIP2
CorruptImage ==
  LET S1 == SectorSize
      b == LibRun(MethodBZIP2, S1, 5)
  IN  Container(CopyBytes(S1, 40) \o <<0, 1>> \o <<129, 5>> \o b,
        <<Mish(<<Rec(MethodCopy, 0, 1, 0, S1),
                 Rec(MethodZLIB, 1, 1, S1, 2),
                 Rec(MethodADC, 2, 1, S1 + 2, 2),
                 Rec(MethodBZIP2, 3, 1, S1 + 4, Len(b)),
                 Rec(MethodEnd, 4, 0, 0, 0)>>, 0, 4)>>, 4)

Images == {MixedImage, LzfseImage, UnknownImage, CorruptImage}

-----------------------------------------------------------------------------
(* The calls of a caller *)

\* the most cache accesses a stream of the model makes
MaxAccessMark == 4

\* Handler.Open on the container
OpenAct ==
  /\ openErr = "none"
  /\ \E r \in {Open(h, img)} :
       /\ h' = r.h
       /\ openErr' = r.err
  /\ UNCHANGED <<gr, p, img, st, last, hist>>

\* Handler.GetStream(index): the caller keeps the stream it gets as stream k
GetStreamAct(k, index) ==
  /\ openErr = "nil"
  /\ \E r \in {GetStream(h, index)} :
      /\ st' = IF r.err = "nil" THEN [st EXCEPT ![k] = r.s] ELSE st
      /\ last' = [last EXCEPT ![k] = [NoResult EXCEPT !.op = "GetStream", !.err = r.err,
                                                       !.pos = index]]
      /\ hist' = IF r.err = "nil"
                   THEN [hist EXCEPT ![k] =
                           [NoHist EXCEPT !.keep = hist[k].keep,
                                          !.seen = IF hist[k].keep
                                                     THEN [i \in 1..r.s.size |-> -1]
                                                     ELSE <<>>]]
                   ELSE hist
      /\ UNCHANGED <<gr, p, img, h, openErr>>

\* a Read returned an error other than io.EOF
Failure(err) == err \notin {"nil", "EOF", "panic"}

\* what the caller has of a stream after a Read from cursor pre returned r
Record(hs, pre, r) ==
  IF ~hs.keep THEN [hs EXCEPT !.failed = @ \/ Failure(r.err)]
  ELSE [failed |-> hs.failed \/ Failure(r.err),
        keep |-> TRUE,
        seen |-> [i \in 1..Len(hs.seen) |->
                    IF i > pre /\ i <= pre + r.n THEN r.data[i - pre] ELSE hs.seen[i]],
        dup |-> hs.dup \/ \E i \in (pre + 1)..(pre + r.n) : hs.seen[i] # -1,
        lin |-> hs.lin /\ (r.n > 0 =>
                             \A i \in 1..Len(hs.seen) : (hs.seen[i] # -1) <=> (i <= pre))]

\* InStream.Read on stream k with a buffer of plen bytes, for a stream that
\* has made fewer than marks cache accesses
ReadUpTo(k, plen, io, marks) ==
  /\ st[k].live
  /\ st[k].accessMark < marks
  /\ \E r \in {Read(st[k], plen, img, io)} :
      /\ st' = [st EXCEPT ![k] = r.s]
      /\ last' = [last EXCEPT ![k] =
                    [NoResult EXCEPT !.op = "Read", !.err = r.err, !.n = r.n,
                                     !.data = r.data, !.pre = st[k].virtPos,
                                     !.plen = plen, !.io = io,
                                     !.wasFailed = hist[k].failed,
                                     !.wasError = st[k].errorMode]]
      /\ hist' = [hist EXCEPT ![k] = Record(hist[k], st[k].virtPos, r)]
      /\ UNCHANGED <<gr, p, img, h, openErr>>

ReadAct(k, plen, io) == ReadUpTo(k, plen, io, MaxAccessMark)

\* InStream.Seek on stream k
SeekAct(k, offset, whence) ==
  /\ st[k].live
  /\ \E r \in {Seek(st[k], offset, whence)} :
      /\ st' = [st EXCEPT ![k] = r.s]
      /\ last' = [last EXCEPT ![k] =
                    [NoResult EXCEPT !.op = "Seek", !.err = r.err, !.pos = r.pos,
                                     !.pre = st[k].virtPos, !.offset = offset,
                                     !.whence = whence,
                                     !.wasError = st[k].errorMode]]
      /\ UNCHANGED <<gr, p, img, h, openErr, hist>>

ReadSizes == {0, 1, SectorSize, 2 * SectorSize + 1}
SourceOutcomes == {"ok", "seekErr", "readErr"}
SeekOffsets == {-MaxPos, -1, 0, 1, MaxPos - 1}
Whences == {SeekStart, SeekCurrent, SeekEnd, 3}

Init ==
  /\ p = NoParse
  /\ img \in Images
  /\ h = NewHandler
  /\ openErr = "none"
  /\ st = [k \in Streams |-> NoStream]
  /\ last = [k \in Streams |-> NoResult]
  /\ hist = [k \in Streams |-> NoHist]
  /\ gr = [g \in Goroutines |-> NoCall]

Next ==
  \/ OpenAct
  \/ \E index \in {0, 1} : GetStreamAct(1, index)
  \/ \E plen \in ReadSizes, io \in SourceOutcomes : ReadAct(1, plen, io)
  \/ \E offset \in SeekOffsets, whence \in Whences : SeekAct(1, offset, whence)

Spec == Init /\ [][Next]_vars

-----------------------------------------------------------------------------
(* Properties of a read stream *)

\* C1: once a Read of a stream has returned an error other than io.EOF,
\* every later Read of that stream with a non-empty buffer returns an error
C1_StickyFailure ==
  \A k \in Streams :
     (last[k].op = "Read" /\ last[k].plen > 0 /\ last[k].wasFailed) => last[k].err # "nil"

\* the block of file f that holds the range [pos, pos + n)
InOneBlock(f, pos, n) ==
  \E i \in BlockIndexes(f) :
     /\ f.Blocks[i + 1].UnpPos <= pos
     /\ pos + n <= f.Blocks[i + 1].UnpPos + GetUnpackSizeOfBlock(f, i)

\* C2: a Read that succeeds with n bytes has n <= len(p), serves a range
\* [cursor, cursor + n) that lies in one block of the file, and leaves the
\* cursor at cursor + n
C2_ReadWithinBlock ==
  \A k \in Streams :
     (last[k].op = "Read" /\ last[k].err = "nil") =>
        /\ last[k].n <= last[k].plen
        /\ Len(last[k].data) = last[k].n
        /\ last[k].n > 0 => InOneBlock(st[k].file, last[k].pre, last[k].n)
        /\ st[k].virtPos = last[k].pre + last[k].n

\* a Read from a cached block, cut short at the end of the block
C2_Witness ==
  /\ last[1].op = "Read" /\ last[1].err = "nil"
  /\ st[1].latestChunk >= 0
  /\ last[1].n > 0 /\ last[1].n < last[1].plen
  /\ st[1].virtPos < st[1].size

\* the position a Seek call asks for, as an integer
Target(s, r) ==
  IF r.whence = SeekStart THEN r.offset
  ELSE IF r.whence = SeekCurrent THEN r.pre + r.offset
  ELSE s.size + r.offset

\* C3: a Seek with an invalid whence, or whose target is negative (as an
\* integer, or as the int64 the code computes when the sum passes 2^63),
\* returns an error and leaves the cursor; a Seek whose target is at or past
\* file.Size succeeds and sets the cursor to it; and a Read with a non-empty
\* buffer from a cursor at or past file.Size, on a stream that has not
\* failed, returns 0 bytes and io.EOF
C3_SeekContract ==
  \A k \in Streams :
     /\ (last[k].op = "Seek" /\ last[k].whence \notin {SeekStart, SeekCurrent, SeekEnd}) =>
           (last[k].err # "nil" /\ st[k].virtPos = last[k].pre)
     /\ (last[k].op = "Seek" /\ last[k].whence \in {SeekStart, SeekCurrent, SeekEnd}
           /\ (Target(st[k], last[k]) < 0 \/ Target(st[k], last[k]) >= MaxPos)) =>
           (last[k].err # "nil" /\ st[k].virtPos = last[k].pre)
     /\ (last[k].op = "Seek" /\ last[k].whence \in {SeekStart, SeekCurrent, SeekEnd}
           /\ Target(st[k], last[k]) >= st[k].size /\ Target(st[k], last[k]) < MaxPos) =>
           (last[k].err = "nil" /\ st[k].virtPos = Target(st[k], last[k])
              /\ last[k].pos = Target(st[k], last[k]))
     /\ (last[k].op = "Read" /\ last[k].plen > 0 /\ ~last[k].wasError
           /\ last[k].pre >= st[k].size) =>
           (last[k].n = 0 /\ last[k].err = "EOF" /\ st[k].virtPos = last[k].pre)

\* a Read after a Seek that put the cursor past the end of the file
C3_Witness ==
  /\ last[1].op = "Read" /\ last[1].plen > 0 /\ ~last[1].wasError
  /\ last[1].pre > st[1].size /\ last[1].err = "EOF"

\* the blocks of method ty in file f
BlocksOf(f, ty) == {i \in BlockIndexes(f) : f.Blocks[i + 1].Type = ty}

\* position pos lies in a block of f that comes before every block of BlocksOf(f, ty)
Before(f, ty, pos) ==
  \A i \in BlocksOf(f, ty) : pos < f.Blocks[i + 1].UnpPos

\* position pos lies in a block of method ty
Inside(f, ty, pos) ==
  \E i \in BlocksOf(f, ty) :
     f.Blocks[i + 1].UnpPos <= pos
       /\ pos < f.Blocks[i + 1].UnpPos + GetUnpackSizeOfBlock(f, i)

\* the container holds a record of method ty
Holds(im, ty) ==
  \E e \in 1..Len(im.entries) :
     \E j \in 1..Len(im.entries[e].recs) : im.entries[e].recs[j].Type = ty

\* C8: on a container whose file has an LZFSE block, Open succeeds without
\* headers_error and GetStream succeeds; a Read with a non-empty buffer whose
\* cursor lies in a block before the LZFSE block succeeds (the source serving
\* its reads, the stream not having failed before), and a Read whose cursor
\* lies inside the LZFSE block returns an error
C8_LzfseSentinel ==
  Holds(img, MethodLZFSE) =>
     /\ openErr # "none" => (openErr = "nil" /\ ~h.headersError)
     /\ \A k \in Streams :
          /\ (last[k].op = "GetStream" /\ last[k].pos = 0) => last[k].err = "nil"
          /\ (last[k].op = "Read" /\ last[k].plen > 0 /\ last[k].io = "ok"
                /\ ~last[k].wasError /\ Before(st[k].file, MethodLZFSE, last[k].pre)) =>
                (last[k].err = "nil" /\ last[k].n > 0)
          /\ (last[k].op = "Read" /\ last[k].plen > 0
                /\ Inside(st[k].file, MethodLZFSE, last[k].pre)) =>
                (Failure(last[k].err) /\ last[k].n = 0)

\* the first Read inside the LZFSE block, after the ZLIB block was read
C8_Witness ==
  /\ Holds(img, MethodLZFSE)
  /\ last[1].op = "Read" /\ ~last[1].wasError
  /\ Inside(st[1].file, MethodLZFSE, last[1].pre)
  /\ last[1].err = "lzfse decompression not implemented"
  /\ \E c \in 1..Len(st[1].chunks) : st[1].chunks[c].BlockIndex = 1

\* C9: on a container whose file has a block of a method outside the table,
\* Open succeeds, GetStream on the file returns a stream, and the Reads in
\* the other blocks of the file succeed
C9_UnknownFatalOnRead ==
  Holds(img, MethodUnknown) =>
     /\ openErr # "none" => openErr = "nil"
     /\ \A k \in Streams :
          /\ (last[k].op = "GetStream" /\ last[k].pos = 0) =>
                (last[k].err = "nil" /\ st[k].live)
          /\ (last[k].op = "Read" /\ last[k].plen > 0 /\ last[k].io = "ok"
                /\ ~last[k].wasError /\ last[k].pre < st[k].size
                /\ ~Inside(st[k].file, MethodUnknown, last[k].pre)) =>
                last[k].err = "nil"

-----------------------------------------------------------------------------
(* Two streams on one file: stream 1 is read at random, block by block,   *)
(* stream 2 from its start to its end; the caller keeps what it reads.    *)

InitPair ==
  /\ p = NoParse
  /\ img = MixedImage
  /\ h = NewHandler
  /\ openErr = "none"
  /\ st = [k \in Streams |-> NoStream]
  /\ last = [k \in Streams |-> NoResult]
  /\ hist = [k \in Streams |-> [NoHist EXCEPT !.keep = TRUE]]
  /\ gr = [g \in Goroutines |-> NoCall]

\* the starts of the blocks of MixedImage
BlockStarts == {0, SectorSize, 2 * SectorSize, 4 * SectorSize}

NextPair ==
  \/ OpenAct
  \/ \E k \in Streams : GetStreamAct(k, 0)
  \/ \E k \in Streams : ReadAct(k, 2 * SectorSize, "ok")
  \/ \E offset \in BlockStarts : SeekAct(1, offset, SeekStart)

SpecPair == InitPair /\ [][NextPair]_vars

\* C4: two streams on the same file that read the same range return the
\* same bytes, whatever each of them did before
C4_StreamsAgree ==
  (/\ last[1].op = "Read" /\ last[1].err = "nil"
   /\ last[2].op = "Read" /\ last[2].err = "nil"
   /\ st[1].file = st[2].file
   /\ last[1].pre = last[2].pre /\ last[1].n = last[2].n)
    => last[1].data = last[2].data

\* the caller has read every position of the stream
Covered(hs) == hs.keep /\ Len(hs.seen) > 0 /\ \A i \in 1..Len(hs.seen) : hs.seen[i] # -1

\* C5: Reads of one stream that cover [0, file.Size) exactly once, in any
\* order, give, put in the order of their positions, the bytes of a single
\* linear read from 0 to file.Size
C5_RoundTrip ==
  \A j \in Streams, k \in Streams :
     (/\ Covered(hist[j]) /\ ~hist[j].dup /\ ~hist[j].failed
      /\ Covered(hist[k]) /\ ~hist[k].dup /\ hist[k].lin /\ ~hist[k].failed
      /\ st[j].file = st[k].file)
       => hist[j].seen = hist[k].seen

-----------------------------------------------------------------------------
(* Handler.Open on containers with sound and unsound headers *)

\* a checksum record of numBits bits whose Data begins with data
Sum(type, numBits, data) == [Type |-> type, NumBits |-> numBits, Data |-> data]

\* the mish tables of a directory: sound, with a sector count that is not
\* that of the blocks, with a wrong start sector, with a sector number at
\* the cap, two sound files, and two files whose sectors add up to the cap;
\* then two sound files with checksum records: "sums" of 32 bits each,
\* "sumOdd" with 12 bits in the second, "sumFull" with ChecksumSizeMax bytes
\* in the first and "sumLong" with one byte more declared in the first;
\* then a sound table followed by one with a wrong signature ("secondBad"),
\* and the same after a table whose sector count is not that of its blocks
\* ("wrongThenBad")
Directory(variant) ==
  LET S1 == SectorSize
      zero == Rec(MethodZero2, 0, 1, 0, 0)
      copy == Rec(MethodCopy, 1, 1, 0, S1)
      recs == <<zero, copy, Rec(MethodEnd, 2, 0, 0, 0)>>
      first == [Mish(recs, 0, 2) EXCEPT !.Checksum = Sum(ChecksumTypeCRC, 32, <<1, 2, 3, 4>>)]
      second == [Mish(recs, 2, 2) EXCEPT !.Checksum = Sum(ChecksumTypeCRC, 32, <<5, 6, 7, 8>>)]
  IN  IF variant = "sums" THEN <<first, second>>
      ELSE IF variant = "sumOdd" THEN <<first, [second EXCEPT !.Checksum.NumBits = 12]>>
      ELSE IF variant = "sumFull"
        THEN <<[first EXCEPT !.Checksum.NumBits = 8 * ChecksumSizeMax], second>>
      ELSE IF variant = "sumLong"
        THEN <<[first EXCEPT !.Checksum.NumBits = 8 * (ChecksumSizeMax + 1)], second>>
      ELSE IF variant = "secondBad"
        THEN <<Mish(recs, 0, 2), [Mish(recs, 2, 2) EXCEPT !.hdr = "badsig"]>>
      ELSE IF variant = "wrongThenBad"
        THEN <<Mish(recs, 0, 3), [Mish(recs, 3, 2) EXCEPT !.hdr = "badsig"]>>
      ELSE IF variant = "sizeMismatch" THEN <<Mish(recs, 0, 3)>>
      ELSE IF variant = "startMismatch" THEN <<Mish(recs, 1, 2)>>
      ELSE IF variant = "caps"
        THEN <<Mish(<<zero, Rec(MethodCopy, SectorNumberLimit, 1, 0, S1)>>, 0, 1)>>
      ELSE IF variant = "two" THEN <<Mish(recs, 0, 2), Mish(recs, 2, 2)>>
      ELSE IF variant = "sumCap"
        THEN LET half == SectorNumberLimit \div 2
                 big == <<Rec(MethodZero2, 0, half, 0, 0)>>
             IN  <<Mish(big, 0, half), Mish(big, half, half)>>
      ELSE <<Mish(recs, 0, 2)>>

RECURSIVE SumSectors(_, _)
\* the sectors the first n tables declare
SumSectors(entries, n) ==
  IF n = 0 THEN 0 ELSE SumSectors(entries, n - 1) + entries[n].NumUnpackSectors

\* a container: the Koly header at the end or at the front (or nowhere),
\* the data fork, then the directory fork (of 40 bytes as XML, of 300 as a
\* resource fork); dfOut and dirOut stretch the fork past the limit, extra
\* declares the other directory fork, outside the container.  Mode "both"
\* has a header at the front and another, declaring other sector counts, at
\* the end; "endNear" and "frontNear" have a header whose signature is off
\* in its last byte; "short" is a source of less than 512 bytes.  Mode
\* "offset" is an image appended to 16 other bytes, its fork pairs counting
\* from its own start; "gap" has 16 bytes of padding between the directory
\* and the trailer, and "gapXm" is a "gap" whose XML text begins with
\* "<?xml" followed by a tab
OpenImage(mode, kind, dfOut, dirOut, extra, blob, delta, variant) ==
  LET data == CopyBytes(SectorSize, 50)
      base == IF mode \in {"front", "both", "endNear", "frontNear"}
                THEN KolyHeaderSize ELSE 0
      trail == IF mode \in {"end", "both", "endNear", "none", "offset", "gap", "gapXm"}
                 THEN KolyHeaderSize ELSE 0
      pre == IF mode = "offset" THEN 16 ELSE 0
      pad == IF mode \in {"gap", "gapXm"} THEN 16 ELSE 0
      dirLen == IF kind = "xml" THEN 40 ELSE 300
      dir == [Offset |-> base + Len(data), Len |-> dirLen + (IF dirOut THEN 100 ELSE 0)]
      out == [Offset |-> 0, Len |-> 5000]
      entries == Directory(variant)
      tr == [dataFork |-> [Offset |-> base, Len |-> Len(data) + (IF dfOut THEN 1000 ELSE 0)],
             xml |-> IF kind = "xml" THEN dir ELSE NoPair,
             rsrc |-> IF kind = "rsrc" THEN dir ELSE IF extra THEN out ELSE NoPair,
             blob |-> IF blob = "none" THEN NoPair
                      ELSE IF blob = "out" THEN out ELSE [Offset |-> base, Len |-> 12],
             dataForkChecksum |-> NoChecksum, masterChecksum |-> NoChecksum,
             numSectors |-> SumSectors(entries, Len(entries)) + delta]
      other == [tr EXCEPT !.numSectors = @ + 8]
  IN  [NoImage EXCEPT
         !.size = pre + base + Len(data) + dirLen + pad + trail,
         !.endHead = IF mode \in {"end", "both", "offset", "gap", "gapXm"} THEN KolySignature
                     ELSE IF mode = "endNear" THEN NearKoly ELSE NotKoly,
         !.frontHead = IF mode \in {"front", "both", "endNear"} THEN KolySignature
                       ELSE IF mode = "frontNear" THEN NearKoly ELSE NotKoly,
         !.endT = IF mode \in {"end", "both", "offset", "gap", "gapXm"} THEN tr
                  ELSE IF mode = "endNear" THEN other ELSE @,
         !.frontT = IF mode \in {"front", "endNear"} THEN tr
                    ELSE IF mode \in {"both", "frontNear"} THEN other ELSE @,
         !.dirKind = kind, !.dirAt = pre + base + Len(data), !.dirOK = TRUE,
         !.xmlHead = IF mode = "gapXm" THEN "<?xml\t" ELSE XmlSignature,
         !.blob = IF blob = "malformed" THEN "malformed" ELSE "nomagic",
         !.entries = entries, !.dataAt = pre + base, !.data = data]

RECURSIVE FoldCapped(_, _, _)
\* the fold of the checksum records of the files from the i-th on that takes
\* the first min(NumBits / 8, ChecksumSizeMax) bytes of each record and stops at a
\* record whose NumBits is not a multiple of 8
FoldCapped(crc, files, i) ==
  IF i > Len(files) THEN crc
  ELSE LET cs == files[i].Checksum
           len == IF cs.NumBits \div 8 > ChecksumSizeMax THEN ChecksumSizeMax
                  ELSE cs.NumBits \div 8
       IN  IF cs.NumBits % 8 # 0 THEN crc
           ELSE FoldCapped(CrcUpdate(crc, ChecksumData(cs, len), 1), files, i + 1)

\* a sound container whose files have checksum records and whose trailer
\* has a master checksum: the CRC-32 of the capped fold ("capped"), the
\* CRC-32 the loop of Open computes ("stopped"), another CRC-32 ("off"), or
\* a record of another type ("other")
SummedImage(mode, kind, variant, master) ==
  LET im == OpenImage(mode, kind, FALSE, FALSE, FALSE, "none", 0, variant)
      files == [e \in 1..Len(im.entries) |-> Parse(im.entries[e]).f]
      capped == CrcGetDigest(FoldCapped(CrcInitVal, files, 1))
      stopped == CrcGetDigest(MasterFold(CrcInitVal, files, 1))
      sum == IF master = "capped" THEN Sum(ChecksumTypeCRC, 32, capped)
             ELSE IF master = "stopped" THEN Sum(ChecksumTypeCRC, 32, stopped)
             ELSE IF master = "off"
               THEN Sum(ChecksumTypeCRC, 32, [capped EXCEPT ![4] = (@ + 1) % 256])
             ELSE Sum(1, 32, capped)
  IN  [im EXCEPT !.endT.masterChecksum = sum, !.frontT.masterChecksum = sum]

\* Handler.Close
CloseAct ==
  /\ openErr # "none"
  /\ h' = Close(h)
  /\ openErr' = "none"
  /\ UNCHANGED <<gr, p, img, st, last, hist>>

InitOpen ==
  /\ p = NoParse
  /\ \/ \E mode \in {"end", "front", "both", "none", "endNear", "frontNear", "short",
                        "offset", "gap", "gapXm"},
        kind \in {"xml", "rsrc"},
        dfOut \in BOOLEAN, dirOut \in BOOLEAN, extra \in BOOLEAN,
        blob \in {"none", "out", "malformed"}, delta \in {0, 1},
        variant \in {"good", "sizeMismatch", "startMismatch", "caps", "two", "sumCap"} :
       img = OpenImage(mode, kind, dfOut, dirOut, extra, blob, delta, variant)
     \/ \E mode \in {"end", "front"}, kind \in {"xml", "rsrc"},
           variant \in {"sums", "sumOdd", "sumFull", "sumLong"},
           master \in {"capped", "stopped", "off", "other"} :
          img = SummedImage(mode, kind, variant, master)
     \/ \E mode \in {"end", "front"}, kind \in {"xml", "rsrc"},
           variant \in {"secondBad", "wrongThenBad"} :
          img = OpenImage(mode, kind, FALSE, FALSE, FALSE, "none", 0, variant)
  /\ h = NewHandler
  /\ openErr = "none"
  /\ st = [k \in Streams |-> NoStream]
  /\ last = [k \in Streams |-> NoResult]
  /\ hist = [k \in Streams |-> NoHist]
  /\ gr = [g \in Goroutines |-> NoCall]

NextOpen ==
  \/ OpenAct
  \/ CloseAct
  \/ \E index \in {0, 1} : GetStreamAct(1, index)

SpecOpen == InitOpen /\ [][NextOpen]_vars

\* the Koly header the container holds and the limit of its fork pairs
Trailer(im) == IF im.endHead = KolySignature THEN im.endT ELSE im.frontT
Limit(im) == IF im.endHead = KolySignature THEN im.size - KolyHeaderSize ELSE im.size
KolyFound(im) ==
  im.size >= KolyHeaderSize
    /\ (im.endHead = KolySignature \/ im.frontHead = KolySignature)

\* the container gives Open a directory it can read and walk, and tables
\* Parse takes
DirectoryGiven(im) ==
  /\ im.dirOK
  /\ IF im.dirKind = "xml" THEN Trailer(im).xml.Len # 0
     ELSE Trailer(im).xml.Len = 0 /\ Trailer(im).rsrc.Len >= 256
  /\ \A e \in 1..Len(im.entries) : Parse(im.entries[e]).err = "nil"

\* invariant 5: a data, rsrc or xml fork pair that does not lie within the limit
ForkOutside(im) ==
  \E pair \in {Trailer(im).dataFork, Trailer(im).rsrc, Trailer(im).xml} :
     pair.Offset + pair.Len > Limit(im)

\* invariants 1 to 4: the size of a file against its sector count, the
\* start sectors, the total sector count and the sector caps
SectorsUnsound(im) ==
  \/ \E e \in 1..Len(im.entries) :
       \/ Parse(im.entries[e]).f.Size \div SectorSize # im.entries[e].NumUnpackSectors
       \/ im.entries[e].StartUnpackSector # SumSectors(im.entries, e - 1)
       \/ im.entries[e].NumUnpackSectors >= SectorNumberLimit
       \/ \E j \in 1..Len(im.entries[e].recs) :
            \/ im.entries[e].recs[j].sectorNum >= SectorNumberLimit
            \/ im.entries[e].recs[j].unpSectors >= SectorNumberLimit
  \/ SumSectors(im.entries, Len(im.entries)) # Trailer(im).numSectors

\* C10: once the Koly header is found, a violation of one of the invariants
\* 1 to 5 (a size/sector mismatch of a file, a start sector mismatch, a
\* total sector count mismatch, a sector cap, or a data, rsrc or xml fork
\* pair outside the limit) makes Open return success with headers_error set
C10_SoftValidation ==
  (/\ openErr # "none"
   /\ KolyFound(img) /\ DirectoryGiven(img)
   /\ (ForkOutside(img) \/ SectorsUnsound(img)))
    => (openErr = "nil" /\ h.headersError)

RECURSIVE SumOfSectors(_, _)
\* the sum of NumUnpackSectors over the first n files of the handler
SumOfSectors(files, n) ==
  IF n = 0 THEN 0 ELSE SumOfSectors(files, n - 1) + files[n].NumUnpackSectors

\* invariants 1, 2 and 4 on the file list of the handler
FilesSound(files) ==
  \A i \in 1..Len(files) :
     /\ files[i].IsCorrect
     /\ files[i].StartUnpackSector = SumOfSectors(files, i - 1)
     /\ files[i].NumUnpackSectors < SectorNumberLimit
     /\ SumOfSectors(files, i) < SectorNumberLimit

\* the container declares a signature blob that parseBlob does not take
BlobMalformed(im) ==
  Trailer(im).blob.Len # 0 /\ ~parseBlob(im, Trailer(im).blob.Len)

\* the data fork range, when its checksum is a CRC-32, lies in the source
DataForkInRange(hh, im) ==
  IsCrc32(hh.dataForkChecksum) =>
     /\ hh.startPos + hh.dataForkPair.Offset <= im.size
     /\ hh.dataForkPair.Offset + hh.dataForkPair.Len <= im.size - hh.startPos

\* C11 as stated: after a successful Open, the sum of NumUnpackSectors over
\* the files being the trailer's sector count implies that headersError is
\* false
C11_SumImpliesHeadersOk ==
  (openErr = "nil" /\ SumOfSectors(h.files, Len(h.files)) = h.numSectors)
    => ~h.headersError

\* C11, amended: after a successful Open, headersError is false when the sum
\* of NumUnpackSectors over the files is the trailer's sector count and,
\* besides, every file is correct, the start sectors chain, the sector caps
\* hold, the signature blob (if any) is well-formed and the data fork range
\* of a CRC-32 checksum lies in the source
C11_HeadersOkComplete ==
  (/\ openErr = "nil"
   /\ SumOfSectors(h.files, Len(h.files)) = h.numSectors
   /\ FilesSound(h.files)
   /\ ~BlobMalformed(img)
   /\ DataForkInRange(h, img))
    => ~h.headersError

\* a container of two sound files whose sectors add up to the trailer's count
C11_Witness ==
  /\ openErr = "nil" /\ Len(h.files) = 2
  /\ SumOfSectors(h.files, 2) = h.numSectors /\ h.numSectors = 4
  /\ FilesSound(h.files) /\ ~h.headersError

\* C12: Open on a source shorter than 512 bytes, or whose last and first 512
\* bytes both do not begin with the 12 bytes of the Koly signature, returns
\* an error; when the last 512 bytes begin with the signature, Open takes
\* the trailer from there, whatever the first 512 bytes hold; only when they
\* do not, and the first 512 bytes begin with it, Open takes the trailer
\* from the front
C12_TrailerLocation ==
  openErr # "none" =>
     /\ img.size < KolyHeaderSize => openErr # "nil"
     /\ (img.endHead # KolySignature /\ img.frontHead # KolySignature) => openErr # "nil"
     /\ (img.size >= KolyHeaderSize /\ img.endHead = KolySignature) =>
          /\ h.numSectors = img.endT.numSectors
          /\ h.dataForkPair = img.endT.dataFork
          /\ h.xmlPair = img.endT.xml /\ h.rsrcPair = img.endT.rsrc
     /\ (img.size >= KolyHeaderSize /\ img.endHead # KolySignature
           /\ img.frontHead = KolySignature) =>
          /\ h.numSectors = img.frontT.numSectors
          /\ h.dataForkPair = img.frontT.dataFork
          /\ h.xmlPair = img.frontT.xml /\ h.rsrcPair = img.frontT.rsrc

\* Open succeeded on a container with the signature at both ends, whose two
\* headers declare different sector counts
C12_Witness ==
  /\ openErr = "nil"
  /\ img.endHead = KolySignature /\ img.frontHead = KolySignature
  /\ img.endT.numSectors # img.frontT.numSectors
  /\ h.numSectors = img.endT.numSectors /\ ~h.headersError

\* C15: after an Open that succeeded with headersError set, GetStream on
\* every file index in range returns a stream and no error, also for a file
\* whose blocks do not add up to its NumUnpackSectors
C15_ReadableDespiteHeadersError ==
  \A k \in Streams :
     (/\ openErr = "nil" /\ h.headersError
      /\ last[k].op = "GetStream"
      /\ last[k].pos >= 0 /\ last[k].pos < Len(h.files))
       => (last[k].err = "nil" /\ st[k].live)

\* C20: after an Open that succeeded with headersError false, every file
\* has IsCorrect true, the StartUnpackSector of a file is the sum of the
\* NumUnpackSectors of the files before it, every NumUnpackSectors and every
\* running sum is below SectorNumberLimit, and the total is the sector count
\* of the trailer
C20_HeadersOkSound ==
  (openErr = "nil" /\ ~h.headersError) =>
     /\ FilesSound(h.files)
     /\ SumOfSectors(h.files, Len(h.files)) = h.numSectors
     /\ h.numSectors = Trailer(img).numSectors

\* a resource-fork container of two files opened without headersError
C20_Witness ==
  /\ openErr = "nil" /\ ~h.headersError /\ h.rsrcModeWasUsed
  /\ Len(h.files) = 2 /\ h.files[2].StartUnpackSector = h.files[1].NumUnpackSectors

-----------------------------------------------------------------------------
(* Blocks whose compressed stream does not decode to the declared size *)

\* an ADC stream of n + 1 bytes: a literal sequence of n bytes, then a
\* literal sequence of one byte more
AdcOverlong(n) == AdcLiteral(n) \o <<128, 77>>

\* ZLIB exact | ZLIB one sector too long | ZLIB one byte short |
\* ADC one byte too long
SizesImage ==
  LET S1 == SectorSize
      a == LibRun(MethodZLIB, S1, 7)
      b == LibRun(MethodZLIB, 2 * S1, 8)
      c == LibRun(MethodZLIB, S1 - 1, 9)
      d == AdcOverlong(S1)
  IN  Container(a \o b \o c \o d,
        <<Mish(<<Rec(MethodZLIB, 0, 1, 0, Len(a)),
                 Rec(MethodZLIB, 1, 1, Len(a), Len(b)),
                 Rec(MethodZLIB, 2, 1, Len(a) + Len(b), Len(c)),
                 Rec(MethodADC, 3, 1, Len(a) + Len(b) + Len(c), Len(d)),
                 Rec(MethodEnd, 4, 0, 0, 0)>>, 0, 4)>>, 4)

\* Zero | Copy | ZLIB | ZLIB | BZIP2 | ADC, each of one sector
CacheImage ==
  LET S1 == SectorSize
      a == LibRun(MethodZLIB, S1, 1)
      b == LibRun(MethodZLIB, S1, 2)
      c == LibRun(MethodBZIP2, S1, 3)
      d == AdcLiteral(S1)
  IN  Container(CopyBytes(S1, 60) \o a \o b \o c \o d,
        <<Mish(<<Rec(MethodZero0, 0, 1, 0, 0),
                 Rec(MethodCopy, 1, 1, 0, S1),
                 Rec(MethodZLIB, 2, 1, S1, Len(a)),
                 Rec(MethodZLIB, 3, 1, S1 + Len(a), Len(b)),
                 Rec(MethodBZIP2, 4, 1, S1 + Len(a) + Len(b), Len(c)),
                 Rec(MethodADC, 5, 1, S1 + Len(a) + Len(b) + Len(c), Len(d)),
                 Rec(MethodEnd, 6, 0, 0, 0)>>, 0, 6)>>, 6)

\* Copy | Copy with one packed byte less than the sector | Copy with one
\* packed byte more | Zero
CopyImage ==
  LET S1 == SectorSize
      a == CopyBytes(S1, 70)
      b == CopyBytes(S1 - 1, 80)
      c == CopyBytes(S1 + 1, 90)
  IN  Container(a \o b \o c,
        <<Mish(<<Rec(MethodCopy, 0, 1, 0, Len(a)),
                 Rec(MethodCopy, 1, 1, Len(a), Len(b)),
                 Rec(MethodCopy, 2, 1, Len(a) + Len(b), Len(c)),
                 Rec(MethodZero0, 3, 1, 0, 0),
                 Rec(MethodEnd, 4, 0, 0, 0)>>, 0, 4)>>, 4)

\* the most cache accesses a stream makes in the runs on these images
MaxCacheMark == 6

InitSizes ==
  /\ p = NoParse
  /\ img \in {SizesImage, CacheImage, CopyImage}
  /\ h = NewHandler
  /\ openErr = "none"
  /\ st = [k \in Streams |-> NoStream]
  /\ last = [k \in Streams |-> NoResult]
  /\ hist = [k \in Streams |-> NoHist]
  /\ gr = [g \in Goroutines |-> NoCall]

NextSizes ==
  \/ OpenAct
  \/ GetStreamAct(1, 0)
  \/ \E plen \in {1, SectorSize}, io \in {"ok", "readErr"} :
       ReadUpTo(1, plen, io, MaxCacheMark)
  \/ \E sector \in 0..6 : SeekAct(1, sector * SectorSize, SeekStart)

SpecSizes == InitSizes /\ [][NextSizes]_vars

\* the bytes the source holds for block i of file f of stream s: at most
\* PackSize of them
PackedBytes(s, im, i) ==
  SrcRead(im, s.startPos + s.file.StartPackPos + s.file.Blocks[i + 1].PackPos,
          s.file.Blocks[i + 1].PackSize)

\* the number of bytes the compressed stream of block i holds when it is
\* decoded to its end
DecodedLen(s, im, i) ==
  IF s.file.Blocks[i + 1].Type = MethodADC
    THEN Len(AdcLoop(PackedBytes(s, im, i), 1, NewLzOutWindow, <<>>, Word).out)
    ELSE Len(LibExpand(PackedBytes(s, im, i), 2, <<>>).out)

\* position pos lies in a buffered block whose stream decodes to n bytes,
\* n and the declared size being in relation rel ("short", "long")
Misdeclared(s, im, pos, rel) ==
  \E i \in BlockIndexes(s.file) :
     /\ s.file.Blocks[i + 1].UnpPos <= pos
     /\ pos < s.file.Blocks[i + 1].UnpPos + GetUnpackSizeOfBlock(s.file, i)
     /\ s.file.Blocks[i + 1].Type \in {MethodADC, MethodZLIB, MethodBZIP2, MethodXZ}
     /\ IF rel = "short" THEN DecodedLen(s, im, i) < GetUnpackSizeOfBlock(s.file, i)
        ELSE DecodedLen(s, im, i) > GetUnpackSizeOfBlock(s.file, i)

\* C13: a Read with a non-empty buffer whose cursor lies in a compressed
\* block whose stream decodes to fewer or to more bytes than the declared
\* decompressed size returns an error and leaves the stream failed
C13_SizeMismatchFails ==
  \A k \in Streams :
     (/\ last[k].op = "Read" /\ last[k].plen > 0
      /\ (Misdeclared(st[k], img, last[k].pre, "short")
            \/ Misdeclared(st[k], img, last[k].pre, "long")))
       => (Failure(last[k].err) /\ st[k].errorMode)


-----------------------------------------------------------------------------
(* Several goroutines on one stream.  Stream 1 is the stream the          *)
(* goroutines share; a call takes the mutex, runs up to its store of the  *)
(* cursor, then stores the cursor and gives the mutex back.  Stream 2 is  *)
(* a stream of the same file on which the same calls run one after the    *)
(* other, in the order in which the calls on stream 1 return.             *)

\* GetStream(0): the shared stream and its sequential twin
ShareAct ==
  /\ openErr = "nil"
  /\ ~st[1].live
  /\ \E r \in {GetStream(h, 0)} :
       /\ r.err = "nil"
       /\ st' = [k \in Streams |-> r.s]
       /\ last' = [k \in Streams |-> [NoResult EXCEPT !.op = "GetStream"]]
  /\ UNCHANGED <<gr, p, img, h, openErr, hist>>

\* goroutine g calls Read(p) with len(p) = plen: it is at s.mutex.Lock()
CallRead(g, plen) ==
  /\ st[1].live
  /\ gr[g].pc = "idle"
  /\ gr' = [gr EXCEPT ![g] = [NoCall EXCEPT !.pc = "wait", !.op = "Read", !.plen = plen]]
  /\ UNCHANGED <<p, img, h, openErr, st, last, hist>>

\* goroutine g calls Seek(offset, whence): it is at s.mutex.Lock()
CallSeek(g, offset, whence) ==
  /\ st[1].live
  /\ gr[g].pc = "idle"
  /\ gr' = [gr EXCEPT ![g] = [NoCall EXCEPT !.pc = "wait", !.op = "Seek",
                                            !.offset = offset, !.whence = whence]]
  /\ UNCHANGED <<p, img, h, openErr, st, last, hist>>

\* Read, lines 179-281: Lock returns and Read runs up to "s.virtPos +="
EnterRead(g) ==
  /\ gr[g].pc = "wait" /\ gr[g].op = "Read"
  /\ Lockable(st[1])
  /\ st[1].accessMark < MaxAccessMark
  /\ \E r \in {Read(st[1], gr[g].plen, img, "ok")} :
       /\ st' = [st EXCEPT ![1] = [r.s EXCEPT !.virtPos = st[1].virtPos, !.mutex = g]]
       /\ gr' = [gr EXCEPT ![g].pc = "in",
                           ![g].res = [n |-> r.n, err |-> r.err, data |-> r.data,
                                       pos |-> 0, pre |-> st[1].virtPos]]
  /\ UNCHANGED <<p, img, h, openErr, last, hist>>

\* Seek, lines 288-305: Lock returns and Seek computes newPos
EnterSeek(g) ==
  /\ gr[g].pc = "wait" /\ gr[g].op = "Seek"
  /\ Lockable(st[1])
  /\ \E r \in {Seek(st[1], gr[g].offset, gr[g].whence)} :
       /\ st' = [st EXCEPT ![1].mutex = g]
       /\ gr' = [gr EXCEPT ![g].pc = "in",
                           ![g].res = [n |-> 0, err |-> r.err, data |-> <<>>,
                                       pos |-> r.pos, pre |-> st[1].virtPos]]
  /\ UNCHANGED <<p, img, h, openErr, last, hist>>

\* Read, lines 282-283 and the deferred Unlock; the twin runs the whole Read
ExitRead(g) ==
  /\ gr[g].pc = "in" /\ gr[g].op = "Read"
  /\ \E t \in {Read(st[2], gr[g].plen, img, "ok")} :
       /\ st' = [st EXCEPT ![1].virtPos = U(@ + gr[g].res.n), ![1].mutex = 0, ![2] = t.s]
       /\ last' = [last EXCEPT
                     ![1] = [NoResult EXCEPT !.op = "Read", !.err = gr[g].res.err,
                                             !.n = gr[g].res.n, !.data = gr[g].res.data,
                                             !.pre = gr[g].res.pre, !.plen = gr[g].plen],
                     ![2] = [NoResult EXCEPT !.op = "Read", !.err = t.err, !.n = t.n,
                                             !.data = t.data, !.pre = st[2].virtPos,
                                             !.plen = gr[g].plen]]
  /\ gr' = [gr EXCEPT ![g] = NoCall]
  /\ UNCHANGED <<p, img, h, openErr, hist>>

\* Seek, lines 307-308 and the deferred Unlock; the twin runs the whole Seek
ExitSeek(g) ==
  /\ gr[g].pc = "in" /\ gr[g].op = "Seek"
  /\ \E t \in {Seek(st[2], gr[g].offset, gr[g].whence)} :
       /\ st' = [st EXCEPT ![1].virtPos = IF gr[g].res.err = "nil" THEN gr[g].res.pos ELSE @,
                           ![1].mutex = 0, ![2] = t.s]
       /\ last' = [last EXCEPT
                     ![1] = [NoResult EXCEPT !.op = "Seek", !.err = gr[g].res.err,
                                             !.pos = gr[g].res.pos, !.pre = gr[g].res.pre,
                                             !.offset = gr[g].offset,
                                             !.whence = gr[g].whence],
                     ![2] = [NoResult EXCEPT !.op = "Seek", !.err = t.err, !.pos = t.pos,
                                             !.pre = st[2].virtPos,
                                             !.offset = gr[g].offset,
                                             !.whence = gr[g].whence]]
  /\ gr' = [gr EXCEPT ![g] = NoCall]
  /\ UNCHANGED <<p, img, h, openErr, hist>>

InitShared ==
  /\ p = NoParse
  /\ img = MixedImage
  /\ h = NewHandler
  /\ openErr = "none"
  /\ st = [k \in Streams |-> NoStream]
  /\ last = [k \in Streams |-> NoResult]
  /\ hist = [k \in Streams |-> NoHist]
  /\ gr = [g \in Goroutines |-> NoCall]

NextShared ==
  \/ OpenAct
  \/ ShareAct
  \/ \E g \in Goroutines, plen \in {1, 2 * SectorSize} : CallRead(g, plen)
  \/ \E g \in Goroutines : CallSeek(g, 2 * SectorSize, SeekStart) \/ CallSeek(g, -1, SeekCurrent)
  \/ \E g \in Goroutines : EnterRead(g)
  \/ \E g \in Goroutines : EnterSeek(g)
  \/ \E g \in Goroutines : ExitRead(g)
  \/ \E g \in Goroutines : ExitSeek(g)

SpecShared == InitShared /\ [][NextShared]_vars

\* C14: the Read and Seek calls of several goroutines on one stream take
\* effect one at a time: at most one call is inside the stream, every call
\* returns what the same call returns on a stream that runs the calls one
\* after the other (for a Read: the bytes at the cursor it observed), and
\* between calls the stream is in the state of that sequential stream
C14_CallsAtomic ==
  /\ Cardinality({g \in Goroutines : gr[g].pc = "in"}) <= 1
  /\ last[1] = last[2]
  /\ st[1].mutex = 0 => st[1] = st[2]

\* a Seek waits for the mutex while a Read of the other goroutine is inside
\* the stream, after a Read that loaded a block
C14_Witness ==
  /\ gr[1].pc = "in" /\ gr[1].op = "Read" /\ gr[1].res.n > 0
  /\ gr[2].pc = "wait" /\ gr[2].op = "Seek"
  /\ last[1].op = "Read" /\ last[1].n > 0
  /\ Len(st[1].chunks) > 0

-----------------------------------------------------------------------------
(* The cache of a stream *)

\* the block under the cursor of s is in a slot of the cache
Cached(s) ==
  /\ s.live /\ s.virtPos < s.size
  /\ FindChunk(s.chunks, findBlock(s.file, s.virtPos), 1) >= 0

\* a step in which a Read of stream k returns bytes
ReadStep(k) ==
  last'[k].op = "Read" /\ last'[k].err = "nil" /\ last'[k].n > 0 /\ st'[k] # st[k]

\* the type of the block under the cursor of s
TypeAt(s) == s.file.Blocks[findBlock(s.file, s.virtPos) + 1].Type

\* C17: a Read that is served from a slot that held the block before the
\* call leaves that slot with the counter value of the call as its
\* AccessMark, above the AccessMark of every other slot, so that an eviction
\* that follows does not pick it while there is another slot
C17_BumpOnHit ==
  [][\A k \in Streams :
       (ReadStep(k) /\ ~st[k].errorMode /\ Cached(st[k])) =>
          LET c == st'[k].latestChunk
              chunks == st'[k].chunks
          IN  /\ c >= 0
              /\ chunks[c + 1].AccessMark = st[k].accessMark
              /\ \A d \in 1..Len(chunks) :
                   d # c + 1 => chunks[c + 1].AccessMark > chunks[d].AccessMark
              /\ Len(chunks) > 1 => LeastMarked(chunks, 2, 1) # c]_vars

RECURSIVE BufTotal(_, _)
\* the bytes the buffers of the first n slots hold
BufTotal(chunks, n) ==
  IF n = 0 THEN 0 ELSE BufTotal(chunks, n - 1) + Len(chunks[n].Buf)

\* the cache of s is within its limits
CacheWithinLimits(s) ==
  /\ Len(s.chunks) <= NumChunksMax
  /\ BufTotal(s.chunks, Len(s.chunks)) <= ChunksTotalSizeMax
  /\ s.chunksTotalSize = BufTotal(s.chunks, Len(s.chunks))

\* how the slots of stream s may differ from those of t, the stream after a
\* Read: one slot more, if both limits allowed it, else one slot reused, the
\* one with the smallest AccessMark
SlotRule(s, t) ==
  LET changed == {d \in 1..Len(s.chunks) : t.chunks[d] # s.chunks[d]}
  IN  IF Len(t.chunks) > Len(s.chunks)
        THEN /\ Len(t.chunks) = Len(s.chunks) + 1
             /\ changed = {}
             /\ Len(s.chunks) < NumChunksMax
             /\ s.chunksTotalSize + t.chunks[Len(t.chunks)].BufSize <= ChunksTotalSizeMax
        ELSE /\ Len(t.chunks) = Len(s.chunks)
             /\ Cardinality(changed) = 1
             /\ \A d \in changed :
                  /\ \/ Len(s.chunks) >= NumChunksMax
                     \/ s.chunksTotalSize + t.chunks[d].BufSize > ChunksTotalSizeMax
                  /\ \A e \in 1..Len(s.chunks) :
                       s.chunks[d].AccessMark <= s.chunks[e].AccessMark

\* C18: a stream never has more than NumChunksMax slots nor more than
\* ChunksTotalSizeMax bytes in its buffers; a Read that changes the slots
\* either adds one slot, which both limits allowed, or, when they did not,
\* reuses exactly one slot, the one that had the smallest AccessMark
C18_CacheBounds ==
  [][\A k \in Streams :
       /\ CacheWithinLimits(st[k]) /\ CacheWithinLimits(st'[k])
       /\ (last'[k].op = "Read" /\ st[k].live /\ st'[k].chunks # st[k].chunks)
            => SlotRule(st[k], st'[k])]_vars

\* the cache is full and its first slot was reused after the last was made
C18_Witness ==
  /\ Len(st[1].chunks) = NumChunksMax
  /\ st[1].chunks[1].AccessMark > st[1].chunks[NumChunksMax].AccessMark
  /\ st[1].chunks[1].BlockIndex >= 0
  /\ last[1].op = "Read" /\ last[1].err = "nil"

\* a step that is a Read of stream k, from a cursor inside the file, of a
\* stream that has not failed
ServedStep(k) ==
  /\ last'[k].op = "Read" /\ last'[k].plen > 0
  /\ last'[k] # last[k] \/ st'[k] # st[k]
  /\ st[k].live /\ ~st[k].errorMode /\ st[k].virtPos < st[k].size

\* C19: a Read whose cursor lies in a zero-method block or in a Copy block
\* leaves the slots of the cache and chunksTotalSize as they were; in a
\* zero-method block it returns zero bytes only, and does so whatever the
\* source does, which it does not read
C19_NoCacheForZeroAndCopy ==
  [][\A k \in Streams :
       (ServedStep(k) /\ TypeAt(st[k]) \in {MethodZero0, MethodZero2, MethodCopy}) =>
          /\ st'[k].chunks = st[k].chunks
          /\ st'[k].chunksTotalSize = st[k].chunksTotalSize
          /\ TypeAt(st[k]) # MethodCopy =>
               /\ last'[k].err = "nil" /\ last'[k].n > 0
               /\ \A i \in 1..Len(last'[k].data) : last'[k].data[i] = 0]_vars

\* a Read of the zero block while the source fails and the cache is full
C19_Witness ==
  /\ last[1].op = "Read" /\ last[1].io = "readErr" /\ last[1].err = "nil"
  /\ last[1].n = SectorSize /\ last[1].pre = 0
  /\ st[1].file.Blocks[1].Type = MethodZero0
  /\ Len(st[1].chunks) = NumChunksMax

-----------------------------------------------------------------------------
(* The layout of the container *)

\* the greatest end of the fork pairs of trailer t that lie within limit
MaxForkEnd(t, limit) ==
  LET ends == {pair.Offset + pair.Len : pair \in {t.dataFork, t.xml, t.rsrc, t.blob}}
      within == {e \in ends : e <= limit} \cup {0}
  IN  CHOOSE e \in within : \A d \in within : d <= e

\* the data, XML and resource fork pairs of trailer t lie within limit
ForksWithin(t, limit) ==
  \A pair \in {t.dataFork, t.xml, t.rsrc} : pair.Offset + pair.Len <= limit

\* C21: when the trailer is found at the end of the source, its data fork
\* starts at 512 and the container is larger than 512 bytes, Open works in
\* front-Koly mode: fork pairs that lie within the container size are taken,
\* and phySize is the greatest fork end
C21_LayoutPromotion ==
  (/\ openErr # "none"
   /\ img.size > KolyHeaderSize /\ img.endHead = KolySignature
   /\ img.endT.dataFork.Offset = KolyHeaderSize)
    => /\ ForksWithin(img.endT, img.size) =>
            openErr \notin {"invalid data fork", "invalid XML fork", "invalid rsrc fork"}
       /\ openErr = "nil" => h.phySize = MaxForkEnd(img.endT, img.size)

\* the first four bytes of the source at absolute offset off are "<?xm"
XmlStartAt(im, off) ==
  im.dirKind = "xml" /\ off = im.dirAt /\ im.xmlHead \in {XmlSignature, "<?xml\t"}

\* C22: in end-Koly mode, when the greatest fork end top is not header_pos,
\* Open leaves startPos at 0 if the four bytes at the declared XML offset
\* are "<?xm" and sets it to header_pos - top if they are not, and the probe
\* does not crash, whatever the length of the XML fork
C22_OffsetProbe ==
  LET headerPos == img.size - KolyHeaderSize
      top == MaxForkEnd(img.endT, headerPos)
  IN  (/\ openErr # "none"
       /\ img.size >= KolyHeaderSize /\ img.endHead = KolySignature
       /\ img.endT.dataFork.Offset # KolyHeaderSize
       /\ ForksWithin(img.endT, headerPos)
       /\ top # headerPos)
        => /\ openErr # "panic"
           /\ h.startPos = IF XmlStartAt(img, img.endT.xml.Offset) THEN 0
                           ELSE headerPos - top

\* C22 for XML forks of at least 13 bytes whose text, if it is at the
\* declared offset, begins with "<?xml version"
C22_ProbeLongXml ==
  LET headerPos == img.size - KolyHeaderSize
      top == MaxForkEnd(img.endT, headerPos)
  IN  (/\ openErr # "none"
       /\ img.size >= KolyHeaderSize /\ img.endHead = KolySignature
       /\ img.endT.dataFork.Offset # KolyHeaderSize
       /\ ForksWithin(img.endT, headerPos)
       /\ top # headerPos
       /\ img.endT.xml.Len >= XmlSignatureLen /\ img.xmlHead = XmlSignature)
        => /\ openErr # "panic"
           /\ h.startPos = IF XmlStartAt(img, img.endT.xml.Offset) THEN 0
                           ELSE headerPos - top

-----------------------------------------------------------------------------
(* The master checksum *)

\* C23: after an Open that succeeded, when the master checksum is a CRC-32,
\* masterCrcError is false exactly when the stored value is the CRC-32 of
\* the first min(NumBits / 8, ChecksumSizeMax) bytes of the checksum data of each file,
\* in the order of the file list, up to the first file whose NumBits is not
\* a multiple of 8; when it is not a CRC-32, masterCrcError is false
C23_MasterFold ==
  openErr = "nil" =>
     IF IsCrc32(h.masterChecksum)
       THEN ~h.masterCrcError <=>
              (GetCrc32(h.masterChecksum) = CrcGetDigest(FoldCapped(CrcInitVal, h.files, 1)))
       ELSE ~h.masterCrcError

\* C23 for file lists without a checksum record of more than
\* ChecksumSizeMax bytes
C23_FoldShortRecords ==
  (openErr = "nil" /\ \A i \in 1..Len(h.files) :
                         h.files[i].Checksum.NumBits \div 8 <= ChecksumSizeMax) =>
     IF IsCrc32(h.masterChecksum)
       THEN ~h.masterCrcError <=>
              (GetCrc32(h.masterChecksum) = CrcGetDigest(FoldCapped(CrcInitVal, h.files, 1)))
       ELSE ~h.masterCrcError

-----------------------------------------------------------------------------
(* Copy blocks *)

\* position pos lies in block i of the file of s, a Copy block
InCopyBlock(s, pos, i) ==
  /\ s.file.Blocks[i + 1].Type = MethodCopy
  /\ s.file.Blocks[i + 1].UnpPos <= pos
  /\ pos < s.file.Blocks[i + 1].UnpPos + GetUnpackSizeOfBlock(s.file, i)

\* C24: a Read with a non-empty buffer whose cursor lies in a Copy block
\* whose PackSize is not its decompressed size returns an error, and a Read
\* that returns bytes of a Copy block returns none from beyond the PackSize
\* bytes of the block
C24_CopyMismatchRejected ==
  \A k \in Streams :
     (last[k].op = "Read" /\ last[k].plen > 0 /\ ~last[k].wasError) =>
        \A i \in BlockIndexes(st[k].file) :
           InCopyBlock(st[k], last[k].pre, i) =>
              /\ st[k].file.Blocks[i + 1].PackSize # GetUnpackSizeOfBlock(st[k].file, i)
                   => last[k].err # "nil"
              /\ last[k].pre - st[k].file.Blocks[i + 1].UnpPos + last[k].n
                   <= st[k].file.Blocks[i + 1].PackSize

\* C24 for Copy blocks whose PackSize is their decompressed size
C24_CopyExactWithinRange ==
  \A k \in Streams :
     (last[k].op = "Read" /\ last[k].plen > 0 /\ ~last[k].wasError) =>
        \A i \in BlockIndexes(st[k].file) :
           (InCopyBlock(st[k], last[k].pre, i)
              /\ st[k].file.Blocks[i + 1].PackSize = GetUnpackSizeOfBlock(st[k].file, i)) =>
              last[k].pre - st[k].file.Blocks[i + 1].UnpPos + last[k].n
                <= st[k].file.Blocks[i + 1].PackSize

-----------------------------------------------------------------------------
(* Two streams on one byte source.  The calls of the two streams do not    *)
(* overlap; each Read finds the source where the call before it, of either *)
(* stream, left it.                                                        *)

\* InStream.Read on stream k with a buffer of plen bytes; the call leaves the
\* source at offset left: where it stood (a Read that does not touch the
\* source), or, for a cursor inside the file, at the start of the packed
\* bytes of the block under the cursor (a load that fails before it reads)
\* or at their end (a load through the buffered readers of the decoders,
\* the direct read of a whole Copy block)
SharedReadAct(k, plen, left) ==
  /\ st[k].live
  /\ st[k].accessMark < MaxAccessMark
  /\ \/ left = img.at
     \/ /\ st[k].virtPos < st[k].size
        /\ \E start \in {U(st[k].startPos + st[k].file.StartPackPos
                           + st[k].file.Blocks[findBlock(st[k].file, st[k].virtPos) + 1].PackPos)} :
             left \in {start, start + st[k].file.Blocks[findBlock(st[k].file,
                                                               st[k].virtPos) + 1].PackSize}
  /\ \E r \in {Read(st[k], plen, img, "ok")} :
      /\ st' = [st EXCEPT ![k] = r.s]
      /\ last' = [last EXCEPT ![k] =
                    [NoResult EXCEPT !.op = "Read", !.err = r.err, !.n = r.n,
                                     !.data = r.data, !.pre = st[k].virtPos,
                                     !.plen = plen,
                                     !.wasFailed = hist[k].failed,
                                     !.wasError = st[k].errorMode]]
  /\ img' = [img EXCEPT !.at = left]
  /\ UNCHANGED <<gr, p, h, openErr, hist>>

NextSource ==
  \/ OpenAct
  \/ \E k \in Streams : GetStreamAct(k, 0)
  \/ \E k \in Streams, left \in 0..Len(img.data) :
       SharedReadAct(k, 2 * SectorSize, left)
  \/ \E offset \in BlockStarts : SeekAct(1, offset, SeekStart)

SpecSource == InitShared /\ [][NextSource]_vars

\* C25: a Read of a stream that shares its source with another stream
\* returns what it returns from a source of its own, wherever that source
\* stands: the result of the call and the stream it leaves do not depend on
\* the offset at which the call before it left the source
C25_SharedSource ==
  [][\A k \in Streams :
       (last'[k].op = "Read" /\ (last'[k] # last[k] \/ st'[k] # st[k])) =>
          \A a \in 0..Len(img.data) :
             \E r \in {Read(st[k], last'[k].plen, [img EXCEPT !.at = a], "ok")} :
                /\ r.s = st'[k]
                /\ r.n = last'[k].n /\ r.err = last'[k].err
                /\ r.data = last'[k].data]_vars

\* stream 1 has read the Copy block after stream 2 has loaded an ADC block
\* and left the source inside its packed bytes
C25_Witness ==
  /\ last[1].op = "Read" /\ last[1].err = "nil"
  /\ last[1].pre = SectorSize /\ last[1].n = SectorSize
  /\ last[2].op = "Read" /\ last[2].err = "nil" /\ last[2].pre = 2 * SectorSize
  /\ Len(st[2].chunks) = 1 /\ Len(st[1].chunks) = 1
  /\ img.at = SectorSize

-----------------------------------------------------------------------------
(* The slot a Read copies from *)

\* a step in which a Read of stream k returns bytes of a block that is
\* neither a zero-method block nor a Copy block: "Read from cached chunk"
CacheServedStep(k) ==
  /\ ServedStep(k)
  /\ last'[k].err = "nil" /\ last'[k].n > 0
  /\ TypeAt(st[k]) \notin {MethodZero0, MethodZero2, MethodCopy}

\* C26: whenever Read copies bytes from the cache, latestChunk is the index
\* of a slot, the BlockIndex of that slot is latestBlock, which is the block
\* under the cursor of the call, the buffer of the slot has exactly the
\* decompressed size of that block, and the bytes returned are the bytes of
\* that buffer at the cursor's offset in the block
C26_CacheIndexConsistent ==
  [][\A k \in Streams :
       CacheServedStep(k) =>
          LET t == st'[k]
              b == findBlock(st[k].file, st[k].virtPos)
              c == t.latestChunk
          IN  /\ c >= 0 /\ c < Len(t.chunks)
              /\ t.latestBlock = b
              /\ t.chunks[c + 1].BlockIndex = b
              /\ t.chunks[c + 1].BufSize = GetUnpackSizeOfBlock(t.file, b)
              /\ Len(t.chunks[c + 1].Buf) = GetUnpackSizeOfBlock(t.file, b)
              /\ last'[k].data = CopyFrom(t.chunks[c + 1].Buf,
                                          st[k].virtPos - t.file.Blocks[b + 1].UnpPos,
                                          last'[k].n)]_vars

\* a Read served from the first slot after a seek back to its block, the
\* second slot having been filled and read in between
C26_Witness ==
  /\ last[1].op = "Read" /\ last[1].err = "nil" /\ last[1].n > 0
  /\ Len(st[1].chunks) = NumChunksMax
  /\ st[1].latestChunk = 0
  /\ st[1].chunks[1].BlockIndex = st[1].latestBlock
  /\ st[1].chunks[1].AccessMark < st[1].chunks[NumChunksMax].AccessMark
  /\ st[1].accessMark > st[1].chunks[NumChunksMax].AccessMark + 2

-----------------------------------------------------------------------------
(* The accounting of the cache *)

RECURSIVE BufSizeTotal(_, _)
\* the sum of BufSize over the first n slots
BufSizeTotal(chunks, n) ==
  IF n = 0 THEN 0 ELSE BufSizeTotal(chunks, n - 1) + chunks[n].BufSize

\* C27: in every state of a stream, also after a loadBlock that failed
\* part-way, chunksTotalSize is the sum of BufSize over all slots, and no
\* block index >= 0 is held by more than one slot
C27_CacheAccounting ==
  \A k \in Streams :
     st[k].live =>
        /\ st[k].chunksTotalSize = BufSizeTotal(st[k].chunks, Len(st[k].chunks))
        /\ \A c, d \in 1..Len(st[k].chunks) :
             (st[k].chunks[c].BlockIndex >= 0
                /\ st[k].chunks[c].BlockIndex = st[k].chunks[d].BlockIndex) => c = d

\* a loadBlock that failed after it had allocated the buffer of its slot,
\* while the slot filled before it holds a block
C27_Witness ==
  /\ st[1].live /\ st[1].errorMode
  /\ last[1].op = "Read" /\ Failure(last[1].err)
  /\ Len(st[1].chunks) = NumChunksMax
  /\ \E c, d \in 1..NumChunksMax :
       /\ st[1].chunks[c].BlockIndex = -1 /\ st[1].chunks[c].BufSize > 0
       /\ st[1].chunks[c].AccessMark > st[1].chunks[d].AccessMark
       /\ st[1].chunks[d].BlockIndex >= 0

-----------------------------------------------------------------------------
(* A handler after an Open that failed *)

\* Handler.Open on the source im by a handler that holds an opened image
ReopenAct(im) ==
  /\ openErr = "nil"
  /\ im # img
  /\ img' = im
  /\ \E r \in {Open(h, im)} :
       /\ h' = r.h
       /\ openErr' = r.err
  /\ UNCHANGED <<gr, p, st, last, hist>>

NextReopen ==
  \/ OpenAct
  \/ CloseAct
  \* on a container whose second table has a wrong signature
  \/ \E kind \in {"xml", "rsrc"}, variant \in {"secondBad", "wrongThenBad"} :
       ReopenAct(OpenImage("end", kind, FALSE, FALSE, FALSE, "none", 0, variant))
  \* on a source without a Koly header
  \/ ReopenAct(OpenImage("none", "xml", FALSE, FALSE, FALSE, "none", 0, "good"))

SpecReopen == InitOpen /\ [][NextReopen]_vars

\* C28: when Open has returned an error, GetNumberOfFiles() is 0 and
\* masterCrcError, headersError and dataForkError are false
C28_NoPartialState ==
  openErr \notin {"none", "nil", "panic"} =>
     /\ Len(h.files) = 0
     /\ ~h.masterCrcError /\ ~h.headersError /\ ~h.dataForkError

\* after an Open that failed the handler holds the files of the tables
\* that precede the first table Parse refused, and of the three flags only
\* headersError can be set
C28_ParsedPrefixKept ==
  openErr \notin {"none", "nil", "panic"} =>
     /\ Len(h.files) < Len(img.entries) \/ Len(h.files) = 0
     /\ \A i \in 1..Len(h.files) : Parse(img.entries[i]).f = h.files[i]
     /\ Len(h.files) > 0 => Parse(img.entries[Len(h.files) + 1]).err # "nil"
     /\ ~h.masterCrcError /\ ~h.dataForkError

-----------------------------------------------------------------------------
(* The window of the ADC decoder *)

\* C29: what AdcDecoder.Decode writes for an ADC block does not depend on
\* the bytes the blocks decoded before it left in the window: the decoder
\* of a stream, in whatever state the stream's Reads have left it, decodes
\* every ADC block of the file to the bytes, and with the error, that a
\* decoder with a new window gives
C29_WindowSafety ==
  \A k \in Streams :
     st[k].live =>
        \A i \in BlockIndexes(st[k].file) :
           st[k].file.Blocks[i + 1].Type = MethodADC =>
              LET inp == PackedBytes(st[k], img, i)
                  unp == GetUnpackSizeOfBlock(st[k].file, i)
                  here == AdcDecode(inp, st[k].adc, unp)
                  new == AdcDecode(inp, NewLzOutWindow, unp)
              IN  here.out = new.out /\ here.err = new.err

-----------------------------------------------------------------------------
(* handler.go: ExtractFile, and a read of a stream from its start *)

\* io.CopyN(w, stream, file.Size): the loop of io.Copy over a LimitedReader
\* of total bytes.  r is what the last Read of the stream returned, left the
\* bytes still to copy before r is counted; a Read gets a buffer of at most
\* two sectors here (32 KiB in io.Copy), cut to the bytes still to copy.
\* fuel bounds the iterations: "running" reports a loop that is still
\* running when the bound is used up.
RECURSIVE ExtractLoop(_, _, _, _, _, _)
ExtractLoop(r, left, total, im, io, fuel) ==
  LET rest == left - r.n
      n == total - rest
      plen == IF 2 * SectorSize > rest THEN rest ELSE 2 * SectorSize
  IN  IF r.err = "panic" THEN [n |-> n, err |-> "panic"]
      ELSE IF r.err = "EOF" THEN [n |-> n, err |-> IF rest > 0 THEN "EOF" ELSE "nil"]
      ELSE IF r.err # "nil" THEN [n |-> n, err |-> r.err]
      ELSE IF rest = 0 THEN [n |-> n, err |-> "nil"]
      ELSE IF fuel = 0 THEN [n |-> n, err |-> "running"]
      ELSE ExtractLoop(Read(r.s, plen, im, io), rest, total, im, io, fuel - 1)

\* Handler.ExtractFile: the bytes written to w and the error
ExtractFile(hh, index, im, io) ==
  LET g == GetStream(hh, index)
  IN  IF g.err # "nil" THEN [n |-> 0, err |-> g.err]
      ELSE ExtractLoop([s |-> g.s, n |-> 0, err |-> "nil"], g.s.file.Size,
                       g.s.file.Size, im, io, g.s.file.Size + 1)

\* Handler.ExtractFile(r, index, w); the caller notes the outcome as that of
\* stream k
ExtractAct(k, index, io) ==
  /\ openErr = "nil"
  /\ \E r \in {ExtractFile(h, index, img, io)} :
       last' = [last EXCEPT ![k] = [NoResult EXCEPT !.op = "Extract", !.err = r.err,
                                                     !.n = r.n, !.pos = index,
                                                     !.io = io]]
  /\ UNCHANGED <<gr, p, img, h, openErr, st, hist>>

\* a stream that is read from its start to its end, and files extracted
NextExtract ==
  \/ OpenAct
  \/ GetStreamAct(1, 0)
  \/ \E plen \in ReadSizes, io \in {"ok", "readErr"} : ReadUpTo(1, plen, io, MaxCacheMark)
  \/ \E index \in {0, 1}, io \in {"ok", "readErr"} : ExtractAct(2, index, io)

SpecExtract == Init /\ [][NextExtract]_vars

\* the source has the byte of Copy block i of stream s that position pos of
\* the file is read from
CopyByteThere(s, im, i, pos) ==
  U(s.startPos + s.file.StartPackPos + s.file.Blocks[i + 1].PackPos
      + (pos - s.file.Blocks[i + 1].UnpPos)) < Len(im.data)

\* the source read or the decoding that a Read of position pos of stream s
\* needs succeeds: the source has the byte of a Copy block, the packed bytes
\* of a buffered block decode without error
ReadSucceeds(s, im, pos) ==
  LET i == findBlock(s.file, pos)
      block == s.file.Blocks[i + 1]
  IN  IF IsZeroMethod(block) THEN TRUE
      ELSE IF block.Type = MethodCopy THEN CopyByteThere(s, im, i, pos)
      ELSE DecodeBlock(s, block, GetUnpackSizeOfBlock(s.file, i),
                       PackedBytes(s, im, i), "ok").err = "nil"

\* C30: on a stream whose source reads and block decodes succeed, a Read
\* with a non-empty buffer returns at least one byte and no error while the
\* cursor is below file.Size, and no byte and io.EOF once the cursor is
\* file.Size; and ExtractFile of a file all of whose positions can be read
\* returns no error after it has written exactly file.Size bytes
C30_LinearProgress ==
  [][\A k \in Streams :
       /\ (/\ last'[k].op = "Read" /\ last'[k].plen > 0 /\ last'[k].io = "ok"
           /\ last'[k] # last[k] \/ st'[k] # st[k]
           /\ st[k].live /\ ~st[k].errorMode
           /\ st[k].virtPos < st[k].size => ReadSucceeds(st[k], img, st[k].virtPos))
            => IF st[k].virtPos < st[k].size
                 THEN /\ last'[k].err = "nil" /\ last'[k].n >= 1
                      /\ st'[k].virtPos = st[k].virtPos + last'[k].n
                      /\ st'[k].virtPos <= st[k].size
                 ELSE last'[k].err = "EOF" /\ last'[k].n = 0 /\ st'[k].virtPos = st[k].size
       /\ (/\ last'[k].op = "Extract" /\ last'[k].io = "ok"
           /\ last'[k].pos < Len(h.files)
           /\ GetStream(h, last'[k].pos).err = "nil"
           /\ \A pos \in 0..(h.files[last'[k].pos + 1].Size - 1) :
                ReadSucceeds(GetStream(h, last'[k].pos).s, img, pos))
            => last'[k].err = "nil" /\ last'[k].n = h.files[last'[k].pos + 1].Size]_vars

\* a stream with buffered blocks was read from 0 to its end, where Read
\* returned io.EOF, and the file was extracted whole
C30_Witness ==
  /\ last[1].op = "Read" /\ last[1].err = "EOF" /\ last[1].plen > 0
  /\ last[1].pre = st[1].size /\ st[1].size > 0
  /\ Len(st[1].chunks) > 0 /\ ~hist[1].failed
  /\ last[2].op = "Extract" /\ last[2].err = "nil" /\ last[2].n = st[1].size

=============================================================================
